---- MODULE Spec2Model ----
(***************************************************************************)
(* Chromatic dispersion engine of MacOpticsApp (web-app/src/lib:           *)
(* materials and dispersion, src/unnamed/part_000).                        *)
(*                                                                         *)
(* Numbers.  A JavaScript number is an IEEE 754 binary64 value: NaN,        *)
(* Infinity, -Infinity, or                                                 *)
(*   [k |-> "fin", s |-> sign, m |-> mantissa, e |-> exponent]             *)
(* of value s * m * 2^e, where m is a natural below 2^53 written as a      *)
(* sequence of limbs, least significant limb first (<< >> is zero),        *)
(* because the integers of TLC are 32 bits wide; the zero below zero       *)
(* carries a field neg.  +, -, *, / and Math.sqrt give the double nearest  *)
(* to the exact result, ties to the even mantissa, with gradual underflow  *)
(* and overflow to an infinity; Math.pow follows the algorithm of the      *)
(* engine step by step; parseFloat, String(num) and toFixed convert        *)
(* between doubles and decimal numerals as the language defines.           *)
(*                                                                         *)
(* Evaluation.  The arithmetic and the functions of the source are the     *)
(* arms of the one recursive operator Eval, which every definition calls   *)
(* them through; Input hands the argument sets of the actions out of it.   *)
(***************************************************************************)
EXTENDS Integers, Sequences, FiniteSets, TLC

VARIABLES
  pc,              \* "idle", "loop" (inside computeDispersion) or "done" (returned)
  inSurfaces,      \* computeDispersion's argument surfaces
  inLambdaNm,      \* its argument lambdaNm
  inPulseWidthFs,  \* its argument pulseWidthFs
  idx,             \* position of the for-of iterator in the surfaces
  gddTotal,        \* local gddTotal
  todTotal,        \* local todTotal
  result,          \* the returned DispersionResult
  call,            \* a direct call of an exported function: its name and arguments
  ret,             \* and what it returned
  second,          \* arguments, locals and result of a second invocation of computeDispersion
  calls,           \* number of invocations made so far
  isTracing,       \* state isTracing of the mounted OpticalViewport, FALSE without one
  hasTraced,       \* systemState.hasTraced
  traceResult,     \* systemState.traceResult
  traceError,      \* systemState.traceError
  activeTab,       \* App: state activeTab
  requests,        \* the calls of handleTrace that await, in the order they began
  traces           \* number of traces started so far

\* the variables of the dispersion module, and those of the viewport
dispersionVars ==
  <<pc, inSurfaces, inLambdaNm, inPulseWidthFs, idx, gddTotal, todTotal, result, call, ret,
    second, calls>>
viewportVars == <<isTracing, hasTraced, traceResult, traceError, activeTab, requests, traces>>

vars == <<dispersionVars, viewportVars>>

(***************************************************************************)
(* Bounds of the model.                                                    *)
(***************************************************************************)
\* longest surface list handed to computeDispersion
MaxStack == 2
\* invocations made one after the other
MaxCalls == 2
\* traces started one after the other
MaxTraces == 4
\* decimal places that String(num) prints at most
MaxPlaces == 20

RECURSIVE Eval(_, _)

(***************************************************************************)
(* Naturals of arbitrary size, as sequences of limbs of ten bits, least    *)
(* significant limb first (<< >> is zero).  The recursions split their     *)
(* range in two, so that their depth grows with the logarithm of the       *)
(* length.                                                                 *)
(***************************************************************************)
\* the powers of two up to 2^30
Pow2Table ==
  <<1, 2, 4, 8, 16, 32, 64, 128, 256, 512, 1024, 2048, 4096, 8192, 16384, 32768, 65536,
    131072, 262144, 524288, 1048576, 2097152, 4194304, 8388608, 16777216, 33554432,
    67108864, 134217728, 268435456, 536870912, 1073741824>>

\* 2^e for 0 <= e <= 30
SmallPow2(e) == Pow2Table[e + 1]

\* the base of the limbs
Base == 32 * 32

MaxI(a, b) == IF a >= b THEN a ELSE b
MinI(a, b) == IF a <= b THEN a ELSE b

\* the sequence of n limbs f[1], ..., f[n], every limb evaluated once
Limbs(f, n) == SubSeq(f, 1, n)

RECURSIVE NatHighest(_, _, _)
\* the highest index in lo..hi of a non-zero limb, 0 when there is none
NatHighest(a, lo, hi) ==
  IF lo > hi THEN 0
  ELSE IF lo = hi THEN (IF a[lo] # 0 THEN lo ELSE 0)
  ELSE LET mid == (lo + hi) \div 2
           up == NatHighest(a, mid + 1, hi)
       IN  IF up # 0 THEN up ELSE NatHighest(a, lo, mid)

\* drop the zero limbs at the most significant end
NatTrim(a) == Eval("NatTrim", <<a>>)

\* bring every limb into 0..Base-1, moving the excess (or the borrow) up
NatCarry(a) == Eval("NatCarry", <<a>>)

NatLimb(a, i) == IF i >= 1 /\ i <= Len(a) THEN a[i] ELSE 0

\* the natural v, for a small integer v >= 0
NatFromInt(v) == Eval("NatFromInt", <<v>>)

\* the small integer that the three lowest limbs of a denote
NatToInt(a) == NatLimb(a, 1) + Base * (NatLimb(a, 2) + Base * NatLimb(a, 3))

NatAdd(a, b) == Eval("NatAdd", <<a, b>>)

\* a - b for a >= b
NatSub(a, b) == Eval("NatSub", <<a, b>>)

RECURSIVE NatCmpRange(_, _, _, _)
\* compare limbs lo..hi of two naturals of the same length, from the top
NatCmpRange(a, b, lo, hi) ==
  IF lo > hi THEN 0
  ELSE IF lo = hi THEN (IF a[lo] > b[lo] THEN 1 ELSE IF a[lo] < b[lo] THEN -1 ELSE 0)
  ELSE LET mid == (lo + hi) \div 2
           up == NatCmpRange(a, b, mid + 1, hi)
       IN  IF up # 0 THEN up ELSE NatCmpRange(a, b, lo, mid)

\* -1, 0, 1 as a < b, a = b, a > b (both trimmed)
NatCmp(a, b) ==
  IF Len(a) > Len(b) THEN 1
  ELSE IF Len(a) < Len(b) THEN -1
  ELSE NatCmpRange(a, b, 1, Len(a))

RECURSIVE NatConv(_, _, _, _, _)
\* sum of a[i] * b[k - i + 1] for i in lo..hi
NatConv(a, b, k, lo, hi) ==
  IF lo > hi THEN 0
  ELSE IF lo = hi THEN a[lo] * b[k - lo + 1]
  ELSE LET mid == (lo + hi) \div 2
       IN  NatConv(a, b, k, lo, mid) + NatConv(a, b, k, mid + 1, hi)

NatMul(a, b) == Eval("NatMul", <<a, b>>)

\* a * v * Base^sh for a small v >= 0
NatScale(a, v, sh) == Eval("NatScale", <<a, v, sh>>)

\* 10^e
NatPow10(e) == Eval("NatPow10", <<e>>)

RECURSIVE SmallBits(_)
\* the number of bits of a small integer v >= 0
SmallBits(v) == IF v = 0 THEN 0 ELSE 1 + SmallBits(v \div 2)

\* the number of bits of a
NatBits(a) == IF Len(a) = 0 THEN 0 ELSE 10 * (Len(a) - 1) + SmallBits(a[Len(a)])

\* a * 2^sh
NatShiftLeft(a, sh) == Eval("NatShiftLeft", <<a, sh>>)

\* floor(a / 2^sh)
NatShiftRight(a, sh) == Eval("NatShiftRight", <<a, sh>>)

\* bit i of a, bit 0 being the lowest
NatBit(a, i) == (NatLimb(a, i \div 10 + 1) \div SmallPow2(i % 10)) % 2

\* whether the sh lowest bits of a are zero
NatLowClear(a, sh) ==
  /\ \A i \in 1..MinI(Len(a), sh \div 10) : a[i] = 0
  /\ NatLimb(a, sh \div 10 + 1) % SmallPow2(sh % 10) = 0

\* the natural whose base-1000 digits are the first i of g, most significant
\* first
NatFromGroups(g, i) == Eval("NatFromGroups", <<g, i>>)

\* the largest v in lo..hi with d * v * Base^sh <= r
NatDivLimb(r, d, sh, lo, hi) == Eval("NatDivLimb", <<r, d, sh, lo, hi>>)

\* the three limbs of a from position t down, as an integer
NatTop3(a, t) == (NatLimb(a, t) * Base + NatLimb(a, t - 1)) * Base + NatLimb(a, t - 2)

\* the limb of the quotient at shift sh, for r < d * Base^(sh + 1): the leading
\* limbs of r and d leave a few candidates, NatDivLimb picks among them
NatQuotLimb(r, d, sh) == Eval("NatQuotLimb", <<r, d, sh>>)

\* long division over the quotient positions hi down to lo, r being the
\* remainder so far: <<the quotient limbs lo..hi, the remainder left>>
NatDivRange(r, d, lo, hi) == Eval("NatDivRange", <<r, d, lo, hi>>)

\* <<floor(a / d), a mod d>> for d > 0
NatDivRem(a, d) == Eval("NatDivRem", <<a, d>>)

\* floor(a / d) for d > 0
NatDiv(a, d) == NatDivRem(a, d)[1]

\* division by a small v > 0, from limb i down, r being the remainder so far
\* and q the limbs of the quotient so far: <<floor(a / v), a mod v>>
NatDivSmall(a, v, i, r, q) == Eval("NatDivSmall", <<a, v, i, r, q>>)

RECURSIVE IntSqrtFrom(_, _)
\* Newton's iteration on small integers, downwards from r >= floor(sqrt(v))
IntSqrtFrom(r, v) ==
  LET y == (r + v \div r) \div 2
  IN  IF y >= r THEN r ELSE IntSqrtFrom(y, v)

\* floor(sqrt(v)) for 0 <= v < Base^3
IntSqrt(v) == IF v = 0 THEN 0 ELSE IntSqrtFrom(MinI(v, 32 * Base), v)

\* Newton's iteration downwards from r >= floor(sqrt(a))
NatSqrtFrom(r, a) == Eval("NatSqrtFrom", <<r, a>>)

\* floor(sqrt(a)): up to three limbs directly, beyond by the iteration, which
\* starts just above the root of the three leading limbs
NatSqrt(a) == Eval("NatSqrt", <<a>>)

(***************************************************************************)
(* JavaScript numbers: the doubles of IEEE 754.  A finite number other     *)
(* than zero is s * m * 2^e with 2^52 <= m < 2^53 and -1074 <= e <= 971,   *)
(* or with m < 2^52 at e = -1074 (the subnormal numbers).  Every operation *)
(* rounds its exact result to the nearest double, the even one of two      *)
(* equally near.  The operations of the language on numbers are cases of   *)
(* the evaluator Eval, defined after the functions of the module; each is  *)
(* applied under its own name.                                             *)
(***************************************************************************)
NaN == [k |-> "NaN", s |-> 0, m |-> << >>, e |-> 0]
PosInf == [k |-> "Infinity", s |-> 1, m |-> << >>, e |-> 0]
NegInf == [k |-> "Infinity", s |-> -1, m |-> << >>, e |-> 0]
Zero == [k |-> "fin", s |-> 0, m |-> << >>, e |-> 0]
\* -0: equal to 0 in every comparison, apart in the sign of what it divides
NegZero == [k |-> "fin", s |-> 0, m |-> << >>, e |-> 0, neg |-> TRUE]

\* the sign bit of a number other than NaN, as 1 or -1
Sign(a) == IF a = NegZero THEN -1 ELSE IF a.s = 0 THEN 1 ELSE a.s

\* the zero of sign sg
SignedZero(sg) == IF sg < 0 THEN NegZero ELSE Zero

\* the infinity of sign sg
SignedInf(sg) == IF sg < 0 THEN NegInf ELSE PosInf

IsNaN(a) == a.k = "NaN"
IsInf(a) == a.k = "Infinity"
IsFin(a) == a.k = "fin"

\* -a
RNeg(a) ==
  IF IsNaN(a) THEN NaN
  ELSE IF a.s = 0 THEN SignedZero(-Sign(a))
  ELSE [a EXCEPT !.s = -a.s]

\* |a|
RAbs(a) == IF IsNaN(a) THEN NaN ELSE IF Sign(a) < 0 THEN RNeg(a) ELSE a

\* the double s * m * 2^e for m <= 2^53 that is 0, 2^53, or as a double's m is:
\* Infinity from 2^1024 on
Pack(s, m, e) == Eval("Pack", <<s, m, e>>)

\* the double nearest to s * (n + f) * 2^e, the even one of two equally near,
\* where f = 0, or 0 < f < 1 when sticky is true (n has 55 bits or more then)
Round(s, n, e, sticky) == Eval("Round", <<s, n, e, sticky>>)

\* the double nearest to s * n / d * 2^e
RoundQuot(s, n, d, e) == Eval("RoundQuot", <<s, n, d, e>>)

\* an integer literal below 2^30 in magnitude
RInt(v) == Eval("RInt", <<v>>)

\* a decimal literal: its digits in groups of three, most significant first,
\* and the number of decimals, e.g. 1.5168 = Dec(<<1, 516, 800>>, 6)
Dec(groups, scale) == Eval("Dec", <<groups, scale>>)

\* the literals 10^e that the module writes, e.g. 1e-9 = Exp10(-9)
Pow10Table ==
  (-9 :> RoundQuot(1, <<1>>, NatPow10(9), 0)) @@ (-6 :> RoundQuot(1, <<1>>, NatPow10(6), 0))
  @@ (-4 :> RoundQuot(1, <<1>>, NatPow10(4), 0)) @@ (-3 :> RoundQuot(1, <<1>>, NatPow10(3), 0))
  @@ (18 :> Round(1, NatPow10(18), 0, FALSE)) @@ (24 :> Round(1, NatPow10(24), 0, FALSE))
  @@ (27 :> Round(1, NatPow10(27), 0, FALSE)) @@ (30 :> Round(1, NatPow10(30), 0, FALSE))
  @@ (45 :> Round(1, NatPow10(45), 0, FALSE))

Exp10(e) == Eval("Exp10", <<e>>)

\* sign of a - b for finite a, b
FinCmp(a, b) ==
  IF a.s # b.s THEN (IF a.s > b.s THEN 1 ELSE -1)
  ELSE IF a.s = 0 THEN 0
  ELSE a.s * (IF a.e > b.e THEN 1 ELSE IF a.e < b.e THEN -1 ELSE NatCmp(a.m, b.m))

\* a + b for finite a, b: the sum is formed exactly unless the smaller operand
\* lies below a quarter of the last place of the larger one
FinAdd(a, b) == Eval("FinAdd", <<a, b>>)

\* sign of a - b; never applied to NaN
RCmp(a, b) == Eval("RCmp", <<a, b>>)
\* a + b
RAdd(a, b) == Eval("RAdd", <<a, b>>)
\* a * b
RMul(a, b) == Eval("RMul", <<a, b>>)
\* a / b
RDiv(a, b) == Eval("RDiv", <<a, b>>)
\* Math.max(a, b)
RMax(a, b) == Eval("RMax", <<a, b>>)
\* Math.pow(a, e) for an integer e
RPow(a, e) == Eval("RPow", <<a, e>>)
\* Math.sqrt(a)
RSqrt(a) == Eval("RSqrt", <<a>>)

\* a - b
RSub(a, b) == RAdd(a, RNeg(b))

\* the comparison operators: false as soon as an operand is NaN
REq(a, b) == ~IsNaN(a) /\ ~IsNaN(b) /\ RCmp(a, b) = 0
RLt(a, b) == ~IsNaN(a) /\ ~IsNaN(b) /\ RCmp(a, b) < 0
RLe(a, b) == ~IsNaN(a) /\ ~IsNaN(b) /\ RCmp(a, b) <= 0
RGt(a, b) == ~IsNaN(a) /\ ~IsNaN(b) /\ RCmp(a, b) > 0

\* the same number, NaN included (Object.is up to the sign of zero)
RSame(a, b) == (IsNaN(a) /\ IsNaN(b)) \/ REq(a, b)

(***************************************************************************)
(* Math.pow as the engine computes it (the pow of fdlibm): the words of a  *)
(* double and the constants of the computation.                            *)
(***************************************************************************)
\* the higher 32 bits of a finite a >= 0: exponent and 20 bits of the fraction
HighWord(a) == Eval("HighWord", <<a>>)

\* whether the lower 32 bits of a finite a are zero
LowWordClear(a) == NatLowClear(a.m, 32)

\* the double >= 2^-1022 whose higher word is h and whose lower word is 0
FromHighWord(h) == Eval("FromHighWord", <<h>>)

\* a with its lower word set to 0
TruncLow(a) == Eval("TruncLow", <<a>>)

\* the constants of pow
PowConstTable ==
  [one |-> RInt(1), two |-> RInt(2), three |-> RInt(3),
   bp |-> <<RInt(1), Dec(<<1, 500>>, 3)>>,
   dp_h |-> <<Zero, Dec(<<584, 962, 487, 220, 764, 160, 156>>, 21)>>,
   dp_l |-> <<Zero, Dec(<<13, 500, 392, 21, 297, 489, 712, 800>>, 30)>>,
   two53 |-> Round(1, <<1>>, 53, FALSE),
   L1 |-> Dec(<<599, 999, 999, 999, 994, 648, 725>>, 21),
   L2 |-> Dec(<<428, 571, 428, 578, 550, 184, 252>>, 21),
   L3 |-> Dec(<<333, 333, 329, 818, 377, 432, 918>>, 21),
   L4 |-> Dec(<<272, 728, 123, 808, 534, 6, 489>>, 21),
   L5 |-> Dec(<<230, 660, 745, 775, 561, 754, 67>>, 21),
   L6 |-> Dec(<<206, 975, 17, 800, 338, 417, 784>>, 21),
   P1 |-> Dec(<<166, 666, 666, 666, 666, 19, 37>>, 21),
   P2 |-> RNeg(Dec(<<2, 777, 777, 777, 701, 559, 338, 420>>, 24)),
   P3 |-> Dec(<<66, 137, 563, 214, 379, 343, 611, 700>>, 27),
   P4 |-> RNeg(Dec(<<1, 653, 390, 220, 546, 525, 153, 900>>, 27)),
   P5 |-> Dec(<<41, 381, 367, 970, 572, 384, 603, 900>>, 30),
   lg2 |-> Dec(<<693, 147, 180, 559, 945, 286, 227>>, 21),
   lg2_h |-> Dec(<<693, 147, 182, 464, 599, 609, 375>>, 21),
   lg2_l |-> RNeg(Dec(<<1, 904, 654, 299, 957, 768, 45, 250>>, 30)),
   ovt |-> Dec(<<80, 85, 662, 595, 372, 944, 372>>, 36),
   cp |-> Dec(<<961, 796, 693, 925, 975, 554, 329>>, 21),
   cp_h |-> Dec(<<961, 796, 700, 954, 437, 255, 859>>, 21),
   cp_l |-> RNeg(Dec(<<7, 28, 461, 650, 952, 758, 265, 160>>, 30))]

\* the constant of pow of the given name
PowConst(name) == Eval("PowConst", <<name>>)

(***************************************************************************)
(* Dispersion model registry.                                              *)
(***************************************************************************)
\* coefficient sets, each B and C a triple of decimals (lambda in um)
SELLMEIER ==
  LET BK7 == [B |-> <<Dec(<<1, 39, 612, 120>>, 9), Dec(<<231, 792, 344>>, 9),
                      Dec(<<1, 10, 469, 450>>, 9)>>,
              C |-> <<Dec(<<6, 0, 698, 670>>, 12), Dec(<<20, 17, 914, 400>>, 12),
                      Dec(<<103, 560, 653>>, 6)>>]
      SF11 == [B |-> <<Dec(<<1, 738, 484, 30>>, 9), Dec(<<311, 168, 240>>, 9),
                       Dec(<<1, 174, 908, 710>>, 9)>>,
               C |-> <<Dec(<<13, 371, 117, 200>>, 12), Dec(<<61, 900, 117, 600>>, 12),
                       Dec(<<121, 419, 942>>, 6)>>]
      SILICA == [B |-> <<Dec(<<696, 166, 300>>, 9), Dec(<<407, 942, 600>>, 9),
                         Dec(<<897, 479, 400>>, 9)>>,
                 C |-> <<Dec(<<4, 679, 148>>, 9), Dec(<<13, 512, 60>>, 9),
                         Dec(<<97, 934, 320>>, 6)>>]
      F2 == [B |-> <<Dec(<<1, 310, 387, 640>>, 9), Dec(<<196, 681, 836>>, 9),
                     Dec(<<966, 129, 764>>, 9)>>,
             C |-> <<Dec(<<9, 586, 330, 720>>, 12), Dec(<<45, 762, 762, 500>>, 12),
                     Dec(<<99, 275, 330, 200>>, 9)>>]
      SF10 == [B |-> <<Dec(<<1, 616, 259, 740>>, 9), Dec(<<259, 229, 334>>, 9),
                       Dec(<<968, 871, 60>>, 9)>>,
               C |-> <<Dec(<<10, 620, 16, 200>>, 12), Dec(<<47, 362, 594, 200>>, 12),
                       Dec(<<119, 248, 795>>, 6)>>]
      BAF10 == [B |-> <<Dec(<<1, 585, 149, 500>>, 9), Dec(<<143, 571, 385>>, 9),
                        Dec(<<1, 85, 212, 690>>, 9)>>,
                C |-> <<Dec(<<9, 97, 309, 520>>, 12), Dec(<<42, 452, 63, 600>>, 12),
                        Dec(<<105, 613, 573>>, 6)>>]
      LAK9 == [B |-> <<Dec(<<1, 416, 739, 270>>, 9), Dec(<<126, 605, 356>>, 9),
                       Dec(<<1, 282, 178, 270>>, 9)>>,
               C |-> <<Dec(<<9, 63, 331, 170>>, 12), Dec(<<49, 322, 697, 800>>, 12),
                       Dec(<<95, 640, 397, 100>>, 9)>>]
  IN  [key \in {"N-BK7", "BK7", "N-SF11", "SF11", "Fused Silica", "Silica", "F2",
                "N-SF5", "N-SF10", "N-BAF10", "N-LAK9"} |->
         CASE key \in {"N-BK7", "BK7"} -> BK7
           [] key \in {"N-SF11", "SF11"} -> SF11
           [] key \in {"Fused Silica", "Silica"} -> SILICA
           [] key \in {"F2", "N-SF5"} -> F2
           [] key = "N-SF10" -> SF10
           [] key = "N-BAF10" -> BAF10
           [] key = "N-LAK9" -> LAK9]

(***************************************************************************)
(* Strings are sequences of UTF-16 code units.  A code unit of printable   *)
(* ASCII is the one-character string of its character; every other code    *)
(* unit, and the grave accent, is the string "U+" followed by its four     *)
(* hexadecimal digits, so "U+212A" is the Kelvin sign and                  *)
(* <<"U+D801", "U+DC00">> is the surrogate pair of U+10400.  The case data *)
(* are those of Unicode 17.                                                *)
(***************************************************************************)
\* the code units String.prototype.toLowerCase maps to one other code unit, each
\* followed by its image; a code unit outside printable ASCII is the character
\* named by its number
LowerCaseMapping ==
  <<
   "A", "a", "B", "b", "C", "c", "D", "d", "E", "e", "F", "f", "G", "g", "H", "h", "I",
   "i", "J", "j", "K", "k", "L", "l", "M", "m", "N", "n", "O", "o", "P", "p", "Q", "q",
   "R", "r", "S", "s", "T", "t", "U", "u", "V", "v", "W", "w", "X", "x", "Y", "y", "Z",
   "z", "U+00C0", "U+00E0", "U+00C1", "U+00E1", "U+00C2", "U+00E2", "U+00C3", "U+00E3",
   "U+00C4", "U+00E4", "U+00C5", "U+00E5", "U+00C6", "U+00E6", "U+00C7", "U+00E7",
   "U+00C8", "U+00E8", "U+00C9", "U+00E9", "U+00CA", "U+00EA", "U+00CB", "U+00EB",
   "U+00CC", "U+00EC", "U+00CD", "U+00ED", "U+00CE", "U+00EE", "U+00CF", "U+00EF",
   "U+00D0", "U+00F0", "U+00D1", "U+00F1", "U+00D2", "U+00F2", "U+00D3", "U+00F3",
   "U+00D4", "U+00F4", "U+00D5", "U+00F5", "U+00D6", "U+00F6", "U+00D8", "U+00F8",
   "U+00D9", "U+00F9", "U+00DA", "U+00FA", "U+00DB", "U+00FB", "U+00DC", "U+00FC",
   "U+00DD", "U+00FD", "U+00DE", "U+00FE", "U+0100", "U+0101", "U+0102", "U+0103",
   "U+0104", "U+0105", "U+0106", "U+0107", "U+0108", "U+0109", "U+010A", "U+010B",
   "U+010C", "U+010D", "U+010E", "U+010F", "U+0110", "U+0111", "U+0112", "U+0113",
   "U+0114", "U+0115", "U+0116", "U+0117", "U+0118", "U+0119", "U+011A", "U+011B",
   "U+011C", "U+011D", "U+011E", "U+011F", "U+0120", "U+0121", "U+0122", "U+0123",
   "U+0124", "U+0125", "U+0126", "U+0127", "U+0128", "U+0129", "U+012A", "U+012B",
   "U+012C", "U+012D", "U+012E", "U+012F", "U+0132", "U+0133", "U+0134", "U+0135",
   "U+0136", "U+0137", "U+0139", "U+013A", "U+013B", "U+013C", "U+013D", "U+013E",
   "U+013F", "U+0140", "U+0141", "U+0142", "U+0143", "U+0144", "U+0145", "U+0146",
   "U+0147", "U+0148", "U+014A", "U+014B", "U+014C", "U+014D", "U+014E", "U+014F",
   "U+0150", "U+0151", "U+0152", "U+0153", "U+0154", "U+0155", "U+0156", "U+0157",
   "U+0158", "U+0159", "U+015A", "U+015B", "U+015C", "U+015D", "U+015E", "U+015F",
   "U+0160", "U+0161", "U+0162", "U+0163", "U+0164", "U+0165", "U+0166", "U+0167",
   "U+0168", "U+0169", "U+016A", "U+016B", "U+016C", "U+016D", "U+016E", "U+016F",
   "U+0170", "U+0171", "U+0172", "U+0173", "U+0174", "U+0175", "U+0176", "U+0177",
   "U+0178", "U+00FF", "U+0179", "U+017A", "U+017B", "U+017C", "U+017D", "U+017E",
   "U+0181", "U+0253", "U+0182", "U+0183", "U+0184", "U+0185", "U+0186", "U+0254",
   "U+0187", "U+0188", "U+0189", "U+0256", "U+018A", "U+0257", "U+018B", "U+018C",
   "U+018E", "U+01DD", "U+018F", "U+0259", "U+0190", "U+025B", "U+0191", "U+0192",
   "U+0193", "U+0260", "U+0194", "U+0263", "U+0196", "U+0269", "U+0197", "U+0268",
   "U+0198", "U+0199", "U+019C", "U+026F", "U+019D", "U+0272", "U+019F", "U+0275",
   "U+01A0", "U+01A1", "U+01A2", "U+01A3", "U+01A4", "U+01A5", "U+01A6", "U+0280",
   "U+01A7", "U+01A8", "U+01A9", "U+0283", "U+01AC", "U+01AD", "U+01AE", "U+0288",
   "U+01AF", "U+01B0", "U+01B1", "U+028A", "U+01B2", "U+028B", "U+01B3", "U+01B4",
   "U+01B5", "U+01B6", "U+01B7", "U+0292", "U+01B8", "U+01B9", "U+01BC", "U+01BD",
   "U+01C4", "U+01C6", "U+01C5", "U+01C6", "U+01C7", "U+01C9", "U+01C8", "U+01C9",
   "U+01CA", "U+01CC", "U+01CB", "U+01CC", "U+01CD", "U+01CE", "U+01CF", "U+01D0",
   "U+01D1", "U+01D2", "U+01D3", "U+01D4", "U+01D5", "U+01D6", "U+01D7", "U+01D8",
   "U+01D9", "U+01DA", "U+01DB", "U+01DC", "U+01DE", "U+01DF", "U+01E0", "U+01E1",
   "U+01E2", "U+01E3", "U+01E4", "U+01E5", "U+01E6", "U+01E7", "U+01E8", "U+01E9",
   "U+01EA", "U+01EB", "U+01EC", "U+01ED", "U+01EE", "U+01EF", "U+01F1", "U+01F3",
   "U+01F2", "U+01F3", "U+01F4", "U+01F5", "U+01F6", "U+0195", "U+01F7", "U+01BF",
   "U+01F8", "U+01F9", "U+01FA", "U+01FB", "U+01FC", "U+01FD", "U+01FE", "U+01FF",
   "U+0200", "U+0201", "U+0202", "U+0203", "U+0204", "U+0205", "U+0206", "U+0207",
   "U+0208", "U+0209", "U+020A", "U+020B", "U+020C", "U+020D", "U+020E", "U+020F",
   "U+0210", "U+0211", "U+0212", "U+0213", "U+0214", "U+0215", "U+0216", "U+0217",
   "U+0218", "U+0219", "U+021A", "U+021B", "U+021C", "U+021D", "U+021E", "U+021F",
   "U+0220", "U+019E", "U+0222", "U+0223", "U+0224", "U+0225", "U+0226", "U+0227",
   "U+0228", "U+0229", "U+022A", "U+022B", "U+022C", "U+022D", "U+022E", "U+022F",
   "U+0230", "U+0231", "U+0232", "U+0233", "U+023A", "U+2C65", "U+023B", "U+023C",
   "U+023D", "U+019A", "U+023E", "U+2C66", "U+0241", "U+0242", "U+0243", "U+0180",
   "U+0244", "U+0289", "U+0245", "U+028C", "U+0246", "U+0247", "U+0248", "U+0249",
   "U+024A", "U+024B", "U+024C", "U+024D", "U+024E", "U+024F", "U+0370", "U+0371",
   "U+0372", "U+0373", "U+0376", "U+0377", "U+037F", "U+03F3", "U+0386", "U+03AC",
   "U+0388", "U+03AD", "U+0389", "U+03AE", "U+038A", "U+03AF", "U+038C", "U+03CC",
   "U+038E", "U+03CD", "U+038F", "U+03CE", "U+0391", "U+03B1", "U+0392", "U+03B2",
   "U+0393", "U+03B3", "U+0394", "U+03B4", "U+0395", "U+03B5", "U+0396", "U+03B6",
   "U+0397", "U+03B7", "U+0398", "U+03B8", "U+0399", "U+03B9", "U+039A", "U+03BA",
   "U+039B", "U+03BB", "U+039C", "U+03BC", "U+039D", "U+03BD", "U+039E", "U+03BE",
   "U+039F", "U+03BF", "U+03A0", "U+03C0", "U+03A1", "U+03C1", "U+03A3", "U+03C3",
   "U+03A4", "U+03C4", "U+03A5", "U+03C5", "U+03A6", "U+03C6", "U+03A7", "U+03C7",
   "U+03A8", "U+03C8", "U+03A9", "U+03C9", "U+03AA", "U+03CA", "U+03AB", "U+03CB",
   "U+03CF", "U+03D7", "U+03D8", "U+03D9", "U+03DA", "U+03DB", "U+03DC", "U+03DD",
   "U+03DE", "U+03DF", "U+03E0", "U+03E1", "U+03E2", "U+03E3", "U+03E4", "U+03E5",
   "U+03E6", "U+03E7", "U+03E8", "U+03E9", "U+03EA", "U+03EB", "U+03EC", "U+03ED",
   "U+03EE", "U+03EF", "U+03F4", "U+03B8", "U+03F7", "U+03F8", "U+03F9", "U+03F2",
   "U+03FA", "U+03FB", "U+03FD", "U+037B", "U+03FE", "U+037C", "U+03FF", "U+037D",
   "U+0400", "U+0450", "U+0401", "U+0451", "U+0402", "U+0452", "U+0403", "U+0453",
   "U+0404", "U+0454", "U+0405", "U+0455", "U+0406", "U+0456", "U+0407", "U+0457",
   "U+0408", "U+0458", "U+0409", "U+0459", "U+040A", "U+045A", "U+040B", "U+045B",
   "U+040C", "U+045C", "U+040D", "U+045D", "U+040E", "U+045E", "U+040F", "U+045F",
   "U+0410", "U+0430", "U+0411", "U+0431", "U+0412", "U+0432", "U+0413", "U+0433",
   "U+0414", "U+0434", "U+0415", "U+0435", "U+0416", "U+0436", "U+0417", "U+0437",
   "U+0418", "U+0438", "U+0419", "U+0439", "U+041A", "U+043A", "U+041B", "U+043B",
   "U+041C", "U+043C", "U+041D", "U+043D", "U+041E", "U+043E", "U+041F", "U+043F",
   "U+0420", "U+0440", "U+0421", "U+0441", "U+0422", "U+0442", "U+0423", "U+0443",
   "U+0424", "U+0444", "U+0425", "U+0445", "U+0426", "U+0446", "U+0427", "U+0447",
   "U+0428", "U+0448", "U+0429", "U+0449", "U+042A", "U+044A", "U+042B", "U+044B",
   "U+042C", "U+044C", "U+042D", "U+044D", "U+042E", "U+044E", "U+042F", "U+044F",
   "U+0460", "U+0461", "U+0462", "U+0463", "U+0464", "U+0465", "U+0466", "U+0467",
   "U+0468", "U+0469", "U+046A", "U+046B", "U+046C", "U+046D", "U+046E", "U+046F",
   "U+0470", "U+0471", "U+0472", "U+0473", "U+0474", "U+0475", "U+0476", "U+0477",
   "U+0478", "U+0479", "U+047A", "U+047B", "U+047C", "U+047D", "U+047E", "U+047F",
   "U+0480", "U+0481", "U+048A", "U+048B", "U+048C", "U+048D", "U+048E", "U+048F",
   "U+0490", "U+0491", "U+0492", "U+0493", "U+0494", "U+0495", "U+0496", "U+0497",
   "U+0498", "U+0499", "U+049A", "U+049B", "U+049C", "U+049D", "U+049E", "U+049F",
   "U+04A0", "U+04A1", "U+04A2", "U+04A3", "U+04A4", "U+04A5", "U+04A6", "U+04A7",
   "U+04A8", "U+04A9", "U+04AA", "U+04AB", "U+04AC", "U+04AD", "U+04AE", "U+04AF",
   "U+04B0", "U+04B1", "U+04B2", "U+04B3", "U+04B4", "U+04B5", "U+04B6", "U+04B7",
   "U+04B8", "U+04B9", "U+04BA", "U+04BB", "U+04BC", "U+04BD", "U+04BE", "U+04BF",
   "U+04C0", "U+04CF", "U+04C1", "U+04C2", "U+04C3", "U+04C4", "U+04C5", "U+04C6",
   "U+04C7", "U+04C8", "U+04C9", "U+04CA", "U+04CB", "U+04CC", "U+04CD", "U+04CE",
   "U+04D0", "U+04D1", "U+04D2", "U+04D3", "U+04D4", "U+04D5", "U+04D6", "U+04D7",
   "U+04D8", "U+04D9", "U+04DA", "U+04DB", "U+04DC", "U+04DD", "U+04DE", "U+04DF",
   "U+04E0", "U+04E1", "U+04E2", "U+04E3", "U+04E4", "U+04E5", "U+04E6", "U+04E7",
   "U+04E8", "U+04E9", "U+04EA", "U+04EB", "U+04EC", "U+04ED", "U+04EE", "U+04EF",
   "U+04F0", "U+04F1", "U+04F2", "U+04F3", "U+04F4", "U+04F5", "U+04F6", "U+04F7",
   "U+04F8", "U+04F9", "U+04FA", "U+04FB", "U+04FC", "U+04FD", "U+04FE", "U+04FF",
   "U+0500", "U+0501", "U+0502", "U+0503", "U+0504", "U+0505", "U+0506", "U+0507",
   "U+0508", "U+0509", "U+050A", "U+050B", "U+050C", "U+050D", "U+050E", "U+050F",
   "U+0510", "U+0511", "U+0512", "U+0513", "U+0514", "U+0515", "U+0516", "U+0517",
   "U+0518", "U+0519", "U+051A", "U+051B", "U+051C", "U+051D", "U+051E", "U+051F",
   "U+0520", "U+0521", "U+0522", "U+0523", "U+0524", "U+0525", "U+0526", "U+0527",
   "U+0528", "U+0529", "U+052A", "U+052B", "U+052C", "U+052D", "U+052E", "U+052F",
   "U+0531", "U+0561", "U+0532", "U+0562", "U+0533", "U+0563", "U+0534", "U+0564",
   "U+0535", "U+0565", "U+0536", "U+0566", "U+0537", "U+0567", "U+0538", "U+0568",
   "U+0539", "U+0569", "U+053A", "U+056A", "U+053B", "U+056B", "U+053C", "U+056C",
   "U+053D", "U+056D", "U+053E", "U+056E", "U+053F", "U+056F", "U+0540", "U+0570",
   "U+0541", "U+0571", "U+0542", "U+0572", "U+0543", "U+0573", "U+0544", "U+0574",
   "U+0545", "U+0575", "U+0546", "U+0576", "U+0547", "U+0577", "U+0548", "U+0578",
   "U+0549", "U+0579", "U+054A", "U+057A", "U+054B", "U+057B", "U+054C", "U+057C",
   "U+054D", "U+057D", "U+054E", "U+057E", "U+054F", "U+057F", "U+0550", "U+0580",
   "U+0551", "U+0581", "U+0552", "U+0582", "U+0553", "U+0583", "U+0554", "U+0584",
   "U+0555", "U+0585", "U+0556", "U+0586", "U+10A0", "U+2D00", "U+10A1", "U+2D01",
   "U+10A2", "U+2D02", "U+10A3", "U+2D03", "U+10A4", "U+2D04", "U+10A5", "U+2D05",
   "U+10A6", "U+2D06", "U+10A7", "U+2D07", "U+10A8", "U+2D08", "U+10A9", "U+2D09",
   "U+10AA", "U+2D0A", "U+10AB", "U+2D0B", "U+10AC", "U+2D0C", "U+10AD", "U+2D0D",
   "U+10AE", "U+2D0E", "U+10AF", "U+2D0F", "U+10B0", "U+2D10", "U+10B1", "U+2D11",
   "U+10B2", "U+2D12", "U+10B3", "U+2D13", "U+10B4", "U+2D14", "U+10B5", "U+2D15",
   "U+10B6", "U+2D16", "U+10B7", "U+2D17", "U+10B8", "U+2D18", "U+10B9", "U+2D19",
   "U+10BA", "U+2D1A", "U+10BB", "U+2D1B", "U+10BC", "U+2D1C", "U+10BD", "U+2D1D",
   "U+10BE", "U+2D1E", "U+10BF", "U+2D1F", "U+10C0", "U+2D20", "U+10C1", "U+2D21",
   "U+10C2", "U+2D22", "U+10C3", "U+2D23", "U+10C4", "U+2D24", "U+10C5", "U+2D25",
   "U+10C7", "U+2D27", "U+10CD", "U+2D2D", "U+13A0", "U+AB70", "U+13A1", "U+AB71",
   "U+13A2", "U+AB72", "U+13A3", "U+AB73", "U+13A4", "U+AB74", "U+13A5", "U+AB75",
   "U+13A6", "U+AB76", "U+13A7", "U+AB77", "U+13A8", "U+AB78", "U+13A9", "U+AB79",
   "U+13AA", "U+AB7A", "U+13AB", "U+AB7B", "U+13AC", "U+AB7C", "U+13AD", "U+AB7D",
   "U+13AE", "U+AB7E", "U+13AF", "U+AB7F", "U+13B0", "U+AB80", "U+13B1", "U+AB81",
   "U+13B2", "U+AB82", "U+13B3", "U+AB83", "U+13B4", "U+AB84", "U+13B5", "U+AB85",
   "U+13B6", "U+AB86", "U+13B7", "U+AB87", "U+13B8", "U+AB88", "U+13B9", "U+AB89",
   "U+13BA", "U+AB8A", "U+13BB", "U+AB8B", "U+13BC", "U+AB8C", "U+13BD", "U+AB8D",
   "U+13BE", "U+AB8E", "U+13BF", "U+AB8F", "U+13C0", "U+AB90", "U+13C1", "U+AB91",
   "U+13C2", "U+AB92", "U+13C3", "U+AB93", "U+13C4", "U+AB94", "U+13C5", "U+AB95",
   "U+13C6", "U+AB96", "U+13C7", "U+AB97", "U+13C8", "U+AB98", "U+13C9", "U+AB99",
   "U+13CA", "U+AB9A", "U+13CB", "U+AB9B", "U+13CC", "U+AB9C", "U+13CD", "U+AB9D",
   "U+13CE", "U+AB9E", "U+13CF", "U+AB9F", "U+13D0", "U+ABA0", "U+13D1", "U+ABA1",
   "U+13D2", "U+ABA2", "U+13D3", "U+ABA3", "U+13D4", "U+ABA4", "U+13D5", "U+ABA5",
   "U+13D6", "U+ABA6", "U+13D7", "U+ABA7", "U+13D8", "U+ABA8", "U+13D9", "U+ABA9",
   "U+13DA", "U+ABAA", "U+13DB", "U+ABAB", "U+13DC", "U+ABAC", "U+13DD", "U+ABAD",
   "U+13DE", "U+ABAE", "U+13DF", "U+ABAF", "U+13E0", "U+ABB0", "U+13E1", "U+ABB1",
   "U+13E2", "U+ABB2", "U+13E3", "U+ABB3", "U+13E4", "U+ABB4", "U+13E5", "U+ABB5",
   "U+13E6", "U+ABB6", "U+13E7", "U+ABB7", "U+13E8", "U+ABB8", "U+13E9", "U+ABB9",
   "U+13EA", "U+ABBA", "U+13EB", "U+ABBB", "U+13EC", "U+ABBC", "U+13ED", "U+ABBD",
   "U+13EE", "U+ABBE", "U+13EF", "U+ABBF", "U+13F0", "U+13F8", "U+13F1", "U+13F9",
   "U+13F2", "U+13FA", "U+13F3", "U+13FB", "U+13F4", "U+13FC", "U+13F5", "U+13FD",
   "U+1C89", "U+1C8A", "U+1C90", "U+10D0", "U+1C91", "U+10D1", "U+1C92", "U+10D2",
   "U+1C93", "U+10D3", "U+1C94", "U+10D4", "U+1C95", "U+10D5", "U+1C96", "U+10D6",
   "U+1C97", "U+10D7", "U+1C98", "U+10D8", "U+1C99", "U+10D9", "U+1C9A", "U+10DA",
   "U+1C9B", "U+10DB", "U+1C9C", "U+10DC", "U+1C9D", "U+10DD", "U+1C9E", "U+10DE",
   "U+1C9F", "U+10DF", "U+1CA0", "U+10E0", "U+1CA1", "U+10E1", "U+1CA2", "U+10E2",
   "U+1CA3", "U+10E3", "U+1CA4", "U+10E4", "U+1CA5", "U+10E5", "U+1CA6", "U+10E6",
   "U+1CA7", "U+10E7", "U+1CA8", "U+10E8", "U+1CA9", "U+10E9", "U+1CAA", "U+10EA",
   "U+1CAB", "U+10EB", "U+1CAC", "U+10EC", "U+1CAD", "U+10ED", "U+1CAE", "U+10EE",
   "U+1CAF", "U+10EF", "U+1CB0", "U+10F0", "U+1CB1", "U+10F1", "U+1CB2", "U+10F2",
   "U+1CB3", "U+10F3", "U+1CB4", "U+10F4", "U+1CB5", "U+10F5", "U+1CB6", "U+10F6",
   "U+1CB7", "U+10F7", "U+1CB8", "U+10F8", "U+1CB9", "U+10F9", "U+1CBA", "U+10FA",
   "U+1CBD", "U+10FD", "U+1CBE", "U+10FE", "U+1CBF", "U+10FF", "U+1E00", "U+1E01",
   "U+1E02", "U+1E03", "U+1E04", "U+1E05", "U+1E06", "U+1E07", "U+1E08", "U+1E09",
   "U+1E0A", "U+1E0B", "U+1E0C", "U+1E0D", "U+1E0E", "U+1E0F", "U+1E10", "U+1E11",
   "U+1E12", "U+1E13", "U+1E14", "U+1E15", "U+1E16", "U+1E17", "U+1E18", "U+1E19",
   "U+1E1A", "U+1E1B", "U+1E1C", "U+1E1D", "U+1E1E", "U+1E1F", "U+1E20", "U+1E21",
   "U+1E22", "U+1E23", "U+1E24", "U+1E25", "U+1E26", "U+1E27", "U+1E28", "U+1E29",
   "U+1E2A", "U+1E2B", "U+1E2C", "U+1E2D", "U+1E2E", "U+1E2F", "U+1E30", "U+1E31",
   "U+1E32", "U+1E33", "U+1E34", "U+1E35", "U+1E36", "U+1E37", "U+1E38", "U+1E39",
   "U+1E3A", "U+1E3B", "U+1E3C", "U+1E3D", "U+1E3E", "U+1E3F", "U+1E40", "U+1E41",
   "U+1E42", "U+1E43", "U+1E44", "U+1E45", "U+1E46", "U+1E47", "U+1E48", "U+1E49",
   "U+1E4A", "U+1E4B", "U+1E4C", "U+1E4D", "U+1E4E", "U+1E4F", "U+1E50", "U+1E51",
   "U+1E52", "U+1E53", "U+1E54", "U+1E55", "U+1E56", "U+1E57", "U+1E58", "U+1E59",
   "U+1E5A", "U+1E5B", "U+1E5C", "U+1E5D", "U+1E5E", "U+1E5F", "U+1E60", "U+1E61",
   "U+1E62", "U+1E63", "U+1E64", "U+1E65", "U+1E66", "U+1E67", "U+1E68", "U+1E69",
   "U+1E6A", "U+1E6B", "U+1E6C", "U+1E6D", "U+1E6E", "U+1E6F", "U+1E70", "U+1E71",
   "U+1E72", "U+1E73", "U+1E74", "U+1E75", "U+1E76", "U+1E77", "U+1E78", "U+1E79",
   "U+1E7A", "U+1E7B", "U+1E7C", "U+1E7D", "U+1E7E", "U+1E7F", "U+1E80", "U+1E81",
   "U+1E82", "U+1E83", "U+1E84", "U+1E85", "U+1E86", "U+1E87", "U+1E88", "U+1E89",
   "U+1E8A", "U+1E8B", "U+1E8C", "U+1E8D", "U+1E8E", "U+1E8F", "U+1E90", "U+1E91",
   "U+1E92", "U+1E93", "U+1E94", "U+1E95", "U+1E9E", "U+00DF", "U+1EA0", "U+1EA1",
   "U+1EA2", "U+1EA3", "U+1EA4", "U+1EA5", "U+1EA6", "U+1EA7", "U+1EA8", "U+1EA9",
   "U+1EAA", "U+1EAB", "U+1EAC", "U+1EAD", "U+1EAE", "U+1EAF", "U+1EB0", "U+1EB1",
   "U+1EB2", "U+1EB3", "U+1EB4", "U+1EB5", "U+1EB6", "U+1EB7", "U+1EB8", "U+1EB9",
   "U+1EBA", "U+1EBB", "U+1EBC", "U+1EBD", "U+1EBE", "U+1EBF", "U+1EC0", "U+1EC1",
   "U+1EC2", "U+1EC3", "U+1EC4", "U+1EC5", "U+1EC6", "U+1EC7", "U+1EC8", "U+1EC9",
   "U+1ECA", "U+1ECB", "U+1ECC", "U+1ECD", "U+1ECE", "U+1ECF", "U+1ED0", "U+1ED1",
   "U+1ED2", "U+1ED3", "U+1ED4", "U+1ED5", "U+1ED6", "U+1ED7", "U+1ED8", "U+1ED9",
   "U+1EDA", "U+1EDB", "U+1EDC", "U+1EDD", "U+1EDE", "U+1EDF", "U+1EE0", "U+1EE1",
   "U+1EE2", "U+1EE3", "U+1EE4", "U+1EE5", "U+1EE6", "U+1EE7", "U+1EE8", "U+1EE9",
   "U+1EEA", "U+1EEB", "U+1EEC", "U+1EED", "U+1EEE", "U+1EEF", "U+1EF0", "U+1EF1",
   "U+1EF2", "U+1EF3", "U+1EF4", "U+1EF5", "U+1EF6", "U+1EF7", "U+1EF8", "U+1EF9",
   "U+1EFA", "U+1EFB", "U+1EFC", "U+1EFD", "U+1EFE", "U+1EFF", "U+1F08", "U+1F00",
   "U+1F09", "U+1F01", "U+1F0A", "U+1F02", "U+1F0B", "U+1F03", "U+1F0C", "U+1F04",
   "U+1F0D", "U+1F05", "U+1F0E", "U+1F06", "U+1F0F", "U+1F07", "U+1F18", "U+1F10",
   "U+1F19", "U+1F11", "U+1F1A", "U+1F12", "U+1F1B", "U+1F13", "U+1F1C", "U+1F14",
   "U+1F1D", "U+1F15", "U+1F28", "U+1F20", "U+1F29", "U+1F21", "U+1F2A", "U+1F22",
   "U+1F2B", "U+1F23", "U+1F2C", "U+1F24", "U+1F2D", "U+1F25", "U+1F2E", "U+1F26",
   "U+1F2F", "U+1F27", "U+1F38", "U+1F30", "U+1F39", "U+1F31", "U+1F3A", "U+1F32",
   "U+1F3B", "U+1F33", "U+1F3C", "U+1F34", "U+1F3D", "U+1F35", "U+1F3E", "U+1F36",
   "U+1F3F", "U+1F37", "U+1F48", "U+1F40", "U+1F49", "U+1F41", "U+1F4A", "U+1F42",
   "U+1F4B", "U+1F43", "U+1F4C", "U+1F44", "U+1F4D", "U+1F45", "U+1F59", "U+1F51",
   "U+1F5B", "U+1F53", "U+1F5D", "U+1F55", "U+1F5F", "U+1F57", "U+1F68", "U+1F60",
   "U+1F69", "U+1F61", "U+1F6A", "U+1F62", "U+1F6B", "U+1F63", "U+1F6C", "U+1F64",
   "U+1F6D", "U+1F65", "U+1F6E", "U+1F66", "U+1F6F", "U+1F67", "U+1F88", "U+1F80",
   "U+1F89", "U+1F81", "U+1F8A", "U+1F82", "U+1F8B", "U+1F83", "U+1F8C", "U+1F84",
   "U+1F8D", "U+1F85", "U+1F8E", "U+1F86", "U+1F8F", "U+1F87", "U+1F98", "U+1F90",
   "U+1F99", "U+1F91", "U+1F9A", "U+1F92", "U+1F9B", "U+1F93", "U+1F9C", "U+1F94",
   "U+1F9D", "U+1F95", "U+1F9E", "U+1F96", "U+1F9F", "U+1F97", "U+1FA8", "U+1FA0",
   "U+1FA9", "U+1FA1", "U+1FAA", "U+1FA2", "U+1FAB", "U+1FA3", "U+1FAC", "U+1FA4",
   "U+1FAD", "U+1FA5", "U+1FAE", "U+1FA6", "U+1FAF", "U+1FA7", "U+1FB8", "U+1FB0",
   "U+1FB9", "U+1FB1", "U+1FBA", "U+1F70", "U+1FBB", "U+1F71", "U+1FBC", "U+1FB3",
   "U+1FC8", "U+1F72", "U+1FC9", "U+1F73", "U+1FCA", "U+1F74", "U+1FCB", "U+1F75",
   "U+1FCC", "U+1FC3", "U+1FD8", "U+1FD0", "U+1FD9", "U+1FD1", "U+1FDA", "U+1F76",
   "U+1FDB", "U+1F77", "U+1FE8", "U+1FE0", "U+1FE9", "U+1FE1", "U+1FEA", "U+1F7A",
   "U+1FEB", "U+1F7B", "U+1FEC", "U+1FE5", "U+1FF8", "U+1F78", "U+1FF9", "U+1F79",
   "U+1FFA", "U+1F7C", "U+1FFB", "U+1F7D", "U+1FFC", "U+1FF3", "U+2126", "U+03C9",
   "U+212A", "k", "U+212B", "U+00E5", "U+2132", "U+214E", "U+2160", "U+2170", "U+2161",
   "U+2171", "U+2162", "U+2172", "U+2163", "U+2173", "U+2164", "U+2174", "U+2165",
   "U+2175", "U+2166", "U+2176", "U+2167", "U+2177", "U+2168", "U+2178", "U+2169",
   "U+2179", "U+216A", "U+217A", "U+216B", "U+217B", "U+216C", "U+217C", "U+216D",
   "U+217D", "U+216E", "U+217E", "U+216F", "U+217F", "U+2183", "U+2184", "U+24B6",
   "U+24D0", "U+24B7", "U+24D1", "U+24B8", "U+24D2", "U+24B9", "U+24D3", "U+24BA",
   "U+24D4", "U+24BB", "U+24D5", "U+24BC", "U+24D6", "U+24BD", "U+24D7", "U+24BE",
   "U+24D8", "U+24BF", "U+24D9", "U+24C0", "U+24DA", "U+24C1", "U+24DB", "U+24C2",
   "U+24DC", "U+24C3", "U+24DD", "U+24C4", "U+24DE", "U+24C5", "U+24DF", "U+24C6",
   "U+24E0", "U+24C7", "U+24E1", "U+24C8", "U+24E2", "U+24C9", "U+24E3", "U+24CA",
   "U+24E4", "U+24CB", "U+24E5", "U+24CC", "U+24E6", "U+24CD", "U+24E7", "U+24CE",
   "U+24E8", "U+24CF", "U+24E9", "U+2C00", "U+2C30", "U+2C01", "U+2C31", "U+2C02",
   "U+2C32", "U+2C03", "U+2C33", "U+2C04", "U+2C34", "U+2C05", "U+2C35", "U+2C06",
   "U+2C36", "U+2C07", "U+2C37", "U+2C08", "U+2C38", "U+2C09", "U+2C39", "U+2C0A",
   "U+2C3A", "U+2C0B", "U+2C3B", "U+2C0C", "U+2C3C", "U+2C0D", "U+2C3D", "U+2C0E",
   "U+2C3E", "U+2C0F", "U+2C3F", "U+2C10", "U+2C40", "U+2C11", "U+2C41", "U+2C12",
   "U+2C42", "U+2C13", "U+2C43", "U+2C14", "U+2C44", "U+2C15", "U+2C45", "U+2C16",
   "U+2C46", "U+2C17", "U+2C47", "U+2C18", "U+2C48", "U+2C19", "U+2C49", "U+2C1A",
   "U+2C4A", "U+2C1B", "U+2C4B", "U+2C1C", "U+2C4C", "U+2C1D", "U+2C4D", "U+2C1E",
   "U+2C4E", "U+2C1F", "U+2C4F", "U+2C20", "U+2C50", "U+2C21", "U+2C51", "U+2C22",
   "U+2C52", "U+2C23", "U+2C53", "U+2C24", "U+2C54", "U+2C25", "U+2C55", "U+2C26",
   "U+2C56", "U+2C27", "U+2C57", "U+2C28", "U+2C58", "U+2C29", "U+2C59", "U+2C2A",
   "U+2C5A", "U+2C2B", "U+2C5B", "U+2C2C", "U+2C5C", "U+2C2D", "U+2C5D", "U+2C2E",
   "U+2C5E", "U+2C2F", "U+2C5F", "U+2C60", "U+2C61", "U+2C62", "U+026B", "U+2C63",
   "U+1D7D", "U+2C64", "U+027D", "U+2C67", "U+2C68", "U+2C69", "U+2C6A", "U+2C6B",
   "U+2C6C", "U+2C6D", "U+0251", "U+2C6E", "U+0271", "U+2C6F", "U+0250", "U+2C70",
   "U+0252", "U+2C72", "U+2C73", "U+2C75", "U+2C76", "U+2C7E", "U+023F", "U+2C7F",
   "U+0240", "U+2C80", "U+2C81", "U+2C82", "U+2C83", "U+2C84", "U+2C85", "U+2C86",
   "U+2C87", "U+2C88", "U+2C89", "U+2C8A", "U+2C8B", "U+2C8C", "U+2C8D", "U+2C8E",
   "U+2C8F", "U+2C90", "U+2C91", "U+2C92", "U+2C93", "U+2C94", "U+2C95", "U+2C96",
   "U+2C97", "U+2C98", "U+2C99", "U+2C9A", "U+2C9B", "U+2C9C", "U+2C9D", "U+2C9E",
   "U+2C9F", "U+2CA0", "U+2CA1", "U+2CA2", "U+2CA3", "U+2CA4", "U+2CA5", "U+2CA6",
   "U+2CA7", "U+2CA8", "U+2CA9", "U+2CAA", "U+2CAB", "U+2CAC", "U+2CAD", "U+2CAE",
   "U+2CAF", "U+2CB0", "U+2CB1", "U+2CB2", "U+2CB3", "U+2CB4", "U+2CB5", "U+2CB6",
   "U+2CB7", "U+2CB8", "U+2CB9", "U+2CBA", "U+2CBB", "U+2CBC", "U+2CBD", "U+2CBE",
   "U+2CBF", "U+2CC0", "U+2CC1", "U+2CC2", "U+2CC3", "U+2CC4", "U+2CC5", "U+2CC6",
   "U+2CC7", "U+2CC8", "U+2CC9", "U+2CCA", "U+2CCB", "U+2CCC", "U+2CCD", "U+2CCE",
   "U+2CCF", "U+2CD0", "U+2CD1", "U+2CD2", "U+2CD3", "U+2CD4", "U+2CD5", "U+2CD6",
   "U+2CD7", "U+2CD8", "U+2CD9", "U+2CDA", "U+2CDB", "U+2CDC", "U+2CDD", "U+2CDE",
   "U+2CDF", "U+2CE0", "U+2CE1", "U+2CE2", "U+2CE3", "U+2CEB", "U+2CEC", "U+2CED",
   "U+2CEE", "U+2CF2", "U+2CF3", "U+A640", "U+A641", "U+A642", "U+A643", "U+A644",
   "U+A645", "U+A646", "U+A647", "U+A648", "U+A649", "U+A64A", "U+A64B", "U+A64C",
   "U+A64D", "U+A64E", "U+A64F", "U+A650", "U+A651", "U+A652", "U+A653", "U+A654",
   "U+A655", "U+A656", "U+A657", "U+A658", "U+A659", "U+A65A", "U+A65B", "U+A65C",
   "U+A65D", "U+A65E", "U+A65F", "U+A660", "U+A661", "U+A662", "U+A663", "U+A664",
   "U+A665", "U+A666", "U+A667", "U+A668", "U+A669", "U+A66A", "U+A66B", "U+A66C",
   "U+A66D", "U+A680", "U+A681", "U+A682", "U+A683", "U+A684", "U+A685", "U+A686",
   "U+A687", "U+A688", "U+A689", "U+A68A", "U+A68B", "U+A68C", "U+A68D", "U+A68E",
   "U+A68F", "U+A690", "U+A691", "U+A692", "U+A693", "U+A694", "U+A695", "U+A696",
   "U+A697", "U+A698", "U+A699", "U+A69A", "U+A69B", "U+A722", "U+A723", "U+A724",
   "U+A725", "U+A726", "U+A727", "U+A728", "U+A729", "U+A72A", "U+A72B", "U+A72C",
   "U+A72D", "U+A72E", "U+A72F", "U+A732", "U+A733", "U+A734", "U+A735", "U+A736",
   "U+A737", "U+A738", "U+A739", "U+A73A", "U+A73B", "U+A73C", "U+A73D", "U+A73E",
   "U+A73F", "U+A740", "U+A741", "U+A742", "U+A743", "U+A744", "U+A745", "U+A746",
   "U+A747", "U+A748", "U+A749", "U+A74A", "U+A74B", "U+A74C", "U+A74D", "U+A74E",
   "U+A74F", "U+A750", "U+A751", "U+A752", "U+A753", "U+A754", "U+A755", "U+A756",
   "U+A757", "U+A758", "U+A759", "U+A75A", "U+A75B", "U+A75C", "U+A75D", "U+A75E",
   "U+A75F", "U+A760", "U+A761", "U+A762", "U+A763", "U+A764", "U+A765", "U+A766",
   "U+A767", "U+A768", "U+A769", "U+A76A", "U+A76B", "U+A76C", "U+A76D", "U+A76E",
   "U+A76F", "U+A779", "U+A77A", "U+A77B", "U+A77C", "U+A77D", "U+1D79", "U+A77E",
   "U+A77F", "U+A780", "U+A781", "U+A782", "U+A783", "U+A784", "U+A785", "U+A786",
   "U+A787", "U+A78B", "U+A78C", "U+A78D", "U+0265", "U+A790", "U+A791", "U+A792",
   "U+A793", "U+A796", "U+A797", "U+A798", "U+A799", "U+A79A", "U+A79B", "U+A79C",
   "U+A79D", "U+A79E", "U+A79F", "U+A7A0", "U+A7A1", "U+A7A2", "U+A7A3", "U+A7A4",
   "U+A7A5", "U+A7A6", "U+A7A7", "U+A7A8", "U+A7A9", "U+A7AA", "U+0266", "U+A7AB",
   "U+025C", "U+A7AC", "U+0261", "U+A7AD", "U+026C", "U+A7AE", "U+026A", "U+A7B0",
   "U+029E", "U+A7B1", "U+0287", "U+A7B2", "U+029D", "U+A7B3", "U+AB53", "U+A7B4",
   "U+A7B5", "U+A7B6", "U+A7B7", "U+A7B8", "U+A7B9", "U+A7BA", "U+A7BB", "U+A7BC",
   "U+A7BD", "U+A7BE", "U+A7BF", "U+A7C0", "U+A7C1", "U+A7C2", "U+A7C3", "U+A7C4",
   "U+A794", "U+A7C5", "U+0282", "U+A7C6", "U+1D8E", "U+A7C7", "U+A7C8", "U+A7C9",
   "U+A7CA", "U+A7CB", "U+0264", "U+A7CC", "U+A7CD", "U+A7CE", "U+A7CF", "U+A7D0",
   "U+A7D1", "U+A7D2", "U+A7D3", "U+A7D4", "U+A7D5", "U+A7D6", "U+A7D7", "U+A7D8",
   "U+A7D9", "U+A7DA", "U+A7DB", "U+A7DC", "U+019B", "U+A7F5", "U+A7F6", "U+FF21",
   "U+FF41", "U+FF22", "U+FF42", "U+FF23", "U+FF43", "U+FF24", "U+FF44", "U+FF25",
   "U+FF45", "U+FF26", "U+FF46", "U+FF27", "U+FF47", "U+FF28", "U+FF48", "U+FF29",
   "U+FF49", "U+FF2A", "U+FF4A", "U+FF2B", "U+FF4B", "U+FF2C", "U+FF4C", "U+FF2D",
   "U+FF4D", "U+FF2E", "U+FF4E", "U+FF2F", "U+FF4F", "U+FF30", "U+FF50", "U+FF31",
   "U+FF51", "U+FF32", "U+FF52", "U+FF33", "U+FF53", "U+FF34", "U+FF54", "U+FF35",
   "U+FF55", "U+FF36", "U+FF56", "U+FF37", "U+FF57", "U+FF38", "U+FF58", "U+FF39",
   "U+FF59", "U+FF3A", "U+FF5A"
  >>

\* the same for the code points written as a surrogate pair: a lead surrogate,
\* then the trail surrogates it is followed by, each with its image
SupplementaryMapping ==
  <<
   "U+D801", <<"U+DC00", "U+DC28", "U+DC01", "U+DC29", "U+DC02", "U+DC2A", "U+DC03",
   "U+DC2B", "U+DC04", "U+DC2C", "U+DC05", "U+DC2D", "U+DC06", "U+DC2E", "U+DC07",
   "U+DC2F", "U+DC08", "U+DC30", "U+DC09", "U+DC31", "U+DC0A", "U+DC32", "U+DC0B",
   "U+DC33", "U+DC0C", "U+DC34", "U+DC0D", "U+DC35", "U+DC0E", "U+DC36", "U+DC0F",
   "U+DC37", "U+DC10", "U+DC38", "U+DC11", "U+DC39", "U+DC12", "U+DC3A", "U+DC13",
   "U+DC3B", "U+DC14", "U+DC3C", "U+DC15", "U+DC3D", "U+DC16", "U+DC3E", "U+DC17",
   "U+DC3F", "U+DC18", "U+DC40", "U+DC19", "U+DC41", "U+DC1A", "U+DC42", "U+DC1B",
   "U+DC43", "U+DC1C", "U+DC44", "U+DC1D", "U+DC45", "U+DC1E", "U+DC46", "U+DC1F",
   "U+DC47", "U+DC20", "U+DC48", "U+DC21", "U+DC49", "U+DC22", "U+DC4A", "U+DC23",
   "U+DC4B", "U+DC24", "U+DC4C", "U+DC25", "U+DC4D", "U+DC26", "U+DC4E", "U+DC27",
   "U+DC4F", "U+DCB0", "U+DCD8", "U+DCB1", "U+DCD9", "U+DCB2", "U+DCDA", "U+DCB3",
   "U+DCDB", "U+DCB4", "U+DCDC", "U+DCB5", "U+DCDD", "U+DCB6", "U+DCDE", "U+DCB7",
   "U+DCDF", "U+DCB8", "U+DCE0", "U+DCB9", "U+DCE1", "U+DCBA", "U+DCE2", "U+DCBB",
   "U+DCE3", "U+DCBC", "U+DCE4", "U+DCBD", "U+DCE5", "U+DCBE", "U+DCE6", "U+DCBF",
   "U+DCE7", "U+DCC0", "U+DCE8", "U+DCC1", "U+DCE9", "U+DCC2", "U+DCEA", "U+DCC3",
   "U+DCEB", "U+DCC4", "U+DCEC", "U+DCC5", "U+DCED", "U+DCC6", "U+DCEE", "U+DCC7",
   "U+DCEF", "U+DCC8", "U+DCF0", "U+DCC9", "U+DCF1", "U+DCCA", "U+DCF2", "U+DCCB",
   "U+DCF3", "U+DCCC", "U+DCF4", "U+DCCD", "U+DCF5", "U+DCCE", "U+DCF6", "U+DCCF",
   "U+DCF7", "U+DCD0", "U+DCF8", "U+DCD1", "U+DCF9", "U+DCD2", "U+DCFA", "U+DCD3",
   "U+DCFB", "U+DD70", "U+DD97", "U+DD71", "U+DD98", "U+DD72", "U+DD99", "U+DD73",
   "U+DD9A", "U+DD74", "U+DD9B", "U+DD75", "U+DD9C", "U+DD76", "U+DD9D", "U+DD77",
   "U+DD9E", "U+DD78", "U+DD9F", "U+DD79", "U+DDA0", "U+DD7A", "U+DDA1", "U+DD7C",
   "U+DDA3", "U+DD7D", "U+DDA4", "U+DD7E", "U+DDA5", "U+DD7F", "U+DDA6", "U+DD80",
   "U+DDA7", "U+DD81", "U+DDA8", "U+DD82", "U+DDA9", "U+DD83", "U+DDAA", "U+DD84",
   "U+DDAB", "U+DD85", "U+DDAC", "U+DD86", "U+DDAD", "U+DD87", "U+DDAE", "U+DD88",
   "U+DDAF", "U+DD89", "U+DDB0", "U+DD8A", "U+DDB1", "U+DD8C", "U+DDB3", "U+DD8D",
   "U+DDB4", "U+DD8E", "U+DDB5", "U+DD8F", "U+DDB6", "U+DD90", "U+DDB7", "U+DD91",
   "U+DDB8", "U+DD92", "U+DDB9", "U+DD94", "U+DDBB", "U+DD95", "U+DDBC">>,
   "U+D803", <<"U+DC80", "U+DCC0", "U+DC81", "U+DCC1", "U+DC82", "U+DCC2", "U+DC83",
   "U+DCC3", "U+DC84", "U+DCC4", "U+DC85", "U+DCC5", "U+DC86", "U+DCC6", "U+DC87",
   "U+DCC7", "U+DC88", "U+DCC8", "U+DC89", "U+DCC9", "U+DC8A", "U+DCCA", "U+DC8B",
   "U+DCCB", "U+DC8C", "U+DCCC", "U+DC8D", "U+DCCD", "U+DC8E", "U+DCCE", "U+DC8F",
   "U+DCCF", "U+DC90", "U+DCD0", "U+DC91", "U+DCD1", "U+DC92", "U+DCD2", "U+DC93",
   "U+DCD3", "U+DC94", "U+DCD4", "U+DC95", "U+DCD5", "U+DC96", "U+DCD6", "U+DC97",
   "U+DCD7", "U+DC98", "U+DCD8", "U+DC99", "U+DCD9", "U+DC9A", "U+DCDA", "U+DC9B",
   "U+DCDB", "U+DC9C", "U+DCDC", "U+DC9D", "U+DCDD", "U+DC9E", "U+DCDE", "U+DC9F",
   "U+DCDF", "U+DCA0", "U+DCE0", "U+DCA1", "U+DCE1", "U+DCA2", "U+DCE2", "U+DCA3",
   "U+DCE3", "U+DCA4", "U+DCE4", "U+DCA5", "U+DCE5", "U+DCA6", "U+DCE6", "U+DCA7",
   "U+DCE7", "U+DCA8", "U+DCE8", "U+DCA9", "U+DCE9", "U+DCAA", "U+DCEA", "U+DCAB",
   "U+DCEB", "U+DCAC", "U+DCEC", "U+DCAD", "U+DCED", "U+DCAE", "U+DCEE", "U+DCAF",
   "U+DCEF", "U+DCB0", "U+DCF0", "U+DCB1", "U+DCF1", "U+DCB2", "U+DCF2", "U+DD50",
   "U+DD70", "U+DD51", "U+DD71", "U+DD52", "U+DD72", "U+DD53", "U+DD73", "U+DD54",
   "U+DD74", "U+DD55", "U+DD75", "U+DD56", "U+DD76", "U+DD57", "U+DD77", "U+DD58",
   "U+DD78", "U+DD59", "U+DD79", "U+DD5A", "U+DD7A", "U+DD5B", "U+DD7B", "U+DD5C",
   "U+DD7C", "U+DD5D", "U+DD7D", "U+DD5E", "U+DD7E", "U+DD5F", "U+DD7F", "U+DD60",
   "U+DD80", "U+DD61", "U+DD81", "U+DD62", "U+DD82", "U+DD63", "U+DD83", "U+DD64",
   "U+DD84", "U+DD65", "U+DD85">>,
   "U+D806", <<"U+DCA0", "U+DCC0", "U+DCA1", "U+DCC1", "U+DCA2", "U+DCC2", "U+DCA3",
   "U+DCC3", "U+DCA4", "U+DCC4", "U+DCA5", "U+DCC5", "U+DCA6", "U+DCC6", "U+DCA7",
   "U+DCC7", "U+DCA8", "U+DCC8", "U+DCA9", "U+DCC9", "U+DCAA", "U+DCCA", "U+DCAB",
   "U+DCCB", "U+DCAC", "U+DCCC", "U+DCAD", "U+DCCD", "U+DCAE", "U+DCCE", "U+DCAF",
   "U+DCCF", "U+DCB0", "U+DCD0", "U+DCB1", "U+DCD1", "U+DCB2", "U+DCD2", "U+DCB3",
   "U+DCD3", "U+DCB4", "U+DCD4", "U+DCB5", "U+DCD5", "U+DCB6", "U+DCD6", "U+DCB7",
   "U+DCD7", "U+DCB8", "U+DCD8", "U+DCB9", "U+DCD9", "U+DCBA", "U+DCDA", "U+DCBB",
   "U+DCDB", "U+DCBC", "U+DCDC", "U+DCBD", "U+DCDD", "U+DCBE", "U+DCDE", "U+DCBF",
   "U+DCDF">>,
   "U+D81B", <<"U+DE40", "U+DE60", "U+DE41", "U+DE61", "U+DE42", "U+DE62", "U+DE43",
   "U+DE63", "U+DE44", "U+DE64", "U+DE45", "U+DE65", "U+DE46", "U+DE66", "U+DE47",
   "U+DE67", "U+DE48", "U+DE68", "U+DE49", "U+DE69", "U+DE4A", "U+DE6A", "U+DE4B",
   "U+DE6B", "U+DE4C", "U+DE6C", "U+DE4D", "U+DE6D", "U+DE4E", "U+DE6E", "U+DE4F",
   "U+DE6F", "U+DE50", "U+DE70", "U+DE51", "U+DE71", "U+DE52", "U+DE72", "U+DE53",
   "U+DE73", "U+DE54", "U+DE74", "U+DE55", "U+DE75", "U+DE56", "U+DE76", "U+DE57",
   "U+DE77", "U+DE58", "U+DE78", "U+DE59", "U+DE79", "U+DE5A", "U+DE7A", "U+DE5B",
   "U+DE7B", "U+DE5C", "U+DE7C", "U+DE5D", "U+DE7D", "U+DE5E", "U+DE7E", "U+DE5F",
   "U+DE7F", "U+DEA0", "U+DEBB", "U+DEA1", "U+DEBC", "U+DEA2", "U+DEBD", "U+DEA3",
   "U+DEBE", "U+DEA4", "U+DEBF", "U+DEA5", "U+DEC0", "U+DEA6", "U+DEC1", "U+DEA7",
   "U+DEC2", "U+DEA8", "U+DEC3", "U+DEA9", "U+DEC4", "U+DEAA", "U+DEC5", "U+DEAB",
   "U+DEC6", "U+DEAC", "U+DEC7", "U+DEAD", "U+DEC8", "U+DEAE", "U+DEC9", "U+DEAF",
   "U+DECA", "U+DEB0", "U+DECB", "U+DEB1", "U+DECC", "U+DEB2", "U+DECD", "U+DEB3",
   "U+DECE", "U+DEB4", "U+DECF", "U+DEB5", "U+DED0", "U+DEB6", "U+DED1", "U+DEB7",
   "U+DED2", "U+DEB8", "U+DED3">>,
   "U+D83A", <<"U+DD00", "U+DD22", "U+DD01", "U+DD23", "U+DD02", "U+DD24", "U+DD03",
   "U+DD25", "U+DD04", "U+DD26", "U+DD05", "U+DD27", "U+DD06", "U+DD28", "U+DD07",
   "U+DD29", "U+DD08", "U+DD2A", "U+DD09", "U+DD2B", "U+DD0A", "U+DD2C", "U+DD0B",
   "U+DD2D", "U+DD0C", "U+DD2E", "U+DD0D", "U+DD2F", "U+DD0E", "U+DD30", "U+DD0F",
   "U+DD31", "U+DD10", "U+DD32", "U+DD11", "U+DD33", "U+DD12", "U+DD34", "U+DD13",
   "U+DD35", "U+DD14", "U+DD36", "U+DD15", "U+DD37", "U+DD16", "U+DD38", "U+DD17",
   "U+DD39", "U+DD18", "U+DD3A", "U+DD19", "U+DD3B", "U+DD1A", "U+DD3C", "U+DD1B",
   "U+DD3D", "U+DD1C", "U+DD3E", "U+DD1D", "U+DD3F", "U+DD1E", "U+DD40", "U+DD1F",
   "U+DD41", "U+DD20", "U+DD42", "U+DD21", "U+DD43">>
  >>

\* the code units with the property Case_Ignorable
CaseIgnorable ==
  {
   "'", ".", ":", "^", "U+0060", "U+00A8", "U+00AD", "U+00AF", "U+00B4", "U+00B7",
   "U+00B8", "U+02B0", "U+02B1", "U+02B2", "U+02B3", "U+02B4", "U+02B5", "U+02B6",
   "U+02B7", "U+02B8", "U+02B9", "U+02BA", "U+02BB", "U+02BC", "U+02BD", "U+02BE",
   "U+02BF", "U+02C0", "U+02C1", "U+02C2", "U+02C3", "U+02C4", "U+02C5", "U+02C6",
   "U+02C7", "U+02C8", "U+02C9", "U+02CA", "U+02CB", "U+02CC", "U+02CD", "U+02CE",
   "U+02CF", "U+02D0", "U+02D1", "U+02D2", "U+02D3", "U+02D4", "U+02D5", "U+02D6",
   "U+02D7", "U+02D8", "U+02D9", "U+02DA", "U+02DB", "U+02DC", "U+02DD", "U+02DE",
   "U+02DF", "U+02E0", "U+02E1", "U+02E2", "U+02E3", "U+02E4", "U+02E5", "U+02E6",
   "U+02E7", "U+02E8", "U+02E9", "U+02EA", "U+02EB", "U+02EC", "U+02ED", "U+02EE",
   "U+02EF", "U+02F0", "U+02F1", "U+02F2", "U+02F3", "U+02F4", "U+02F5", "U+02F6",
   "U+02F7", "U+02F8", "U+02F9", "U+02FA", "U+02FB", "U+02FC", "U+02FD", "U+02FE",
   "U+02FF", "U+0300", "U+0301", "U+0302", "U+0303", "U+0304", "U+0305", "U+0306",
   "U+0307", "U+0308", "U+0309", "U+030A", "U+030B", "U+030C", "U+030D", "U+030E",
   "U+030F", "U+0310", "U+0311", "U+0312", "U+0313", "U+0314", "U+0315", "U+0316",
   "U+0317", "U+0318", "U+0319", "U+031A", "U+031B", "U+031C", "U+031D", "U+031E",
   "U+031F", "U+0320", "U+0321", "U+0322", "U+0323", "U+0324", "U+0325", "U+0326",
   "U+0327", "U+0328", "U+0329", "U+032A", "U+032B", "U+032C", "U+032D", "U+032E",
   "U+032F", "U+0330", "U+0331", "U+0332", "U+0333", "U+0334", "U+0335", "U+0336",
   "U+0337", "U+0338", "U+0339", "U+033A", "U+033B", "U+033C", "U+033D", "U+033E",
   "U+033F", "U+0340", "U+0341", "U+0342", "U+0343", "U+0344", "U+0345", "U+0346",
   "U+0347", "U+0348", "U+0349", "U+034A", "U+034B", "U+034C", "U+034D", "U+034E",
   "U+034F", "U+0350", "U+0351", "U+0352", "U+0353", "U+0354", "U+0355", "U+0356",
   "U+0357", "U+0358", "U+0359", "U+035A", "U+035B", "U+035C", "U+035D", "U+035E",
   "U+035F", "U+0360", "U+0361", "U+0362", "U+0363", "U+0364", "U+0365", "U+0366",
   "U+0367", "U+0368", "U+0369", "U+036A", "U+036B", "U+036C", "U+036D", "U+036E",
   "U+036F", "U+0374", "U+0375", "U+037A", "U+0384", "U+0385", "U+0387", "U+0483",
   "U+0484", "U+0485", "U+0486", "U+0487", "U+0488", "U+0489", "U+0559", "U+055F",
   "U+0591", "U+0592", "U+0593", "U+0594", "U+0595", "U+0596", "U+0597", "U+0598",
   "U+0599", "U+059A", "U+059B", "U+059C", "U+059D", "U+059E", "U+059F", "U+05A0",
   "U+05A1", "U+05A2", "U+05A3", "U+05A4", "U+05A5", "U+05A6", "U+05A7", "U+05A8",
   "U+05A9", "U+05AA", "U+05AB", "U+05AC", "U+05AD", "U+05AE", "U+05AF", "U+05B0",
   "U+05B1", "U+05B2", "U+05B3", "U+05B4", "U+05B5", "U+05B6", "U+05B7", "U+05B8",
   "U+05B9", "U+05BA", "U+05BB", "U+05BC", "U+05BD", "U+05BF", "U+05C1", "U+05C2",
   "U+05C4", "U+05C5", "U+05C7", "U+05F4", "U+0600", "U+0601", "U+0602", "U+0603",
   "U+0604", "U+0605", "U+0610", "U+0611", "U+0612", "U+0613", "U+0614", "U+0615",
   "U+0616", "U+0617", "U+0618", "U+0619", "U+061A", "U+061C", "U+0640", "U+064B",
   "U+064C", "U+064D", "U+064E", "U+064F", "U+0650", "U+0651", "U+0652", "U+0653",
   "U+0654", "U+0655", "U+0656", "U+0657", "U+0658", "U+0659", "U+065A", "U+065B",
   "U+065C", "U+065D", "U+065E", "U+065F", "U+0670", "U+06D6", "U+06D7", "U+06D8",
   "U+06D9", "U+06DA", "U+06DB", "U+06DC", "U+06DD", "U+06DF", "U+06E0", "U+06E1",
   "U+06E2", "U+06E3", "U+06E4", "U+06E5", "U+06E6", "U+06E7", "U+06E8", "U+06EA",
   "U+06EB", "U+06EC", "U+06ED", "U+070F", "U+0711", "U+0730", "U+0731", "U+0732",
   "U+0733", "U+0734", "U+0735", "U+0736", "U+0737", "U+0738", "U+0739", "U+073A",
   "U+073B", "U+073C", "U+073D", "U+073E", "U+073F", "U+0740", "U+0741", "U+0742",
   "U+0743", "U+0744", "U+0745", "U+0746", "U+0747", "U+0748", "U+0749", "U+074A",
   "U+07A6", "U+07A7", "U+07A8", "U+07A9", "U+07AA", "U+07AB", "U+07AC", "U+07AD",
   "U+07AE", "U+07AF", "U+07B0", "U+07EB", "U+07EC", "U+07ED", "U+07EE", "U+07EF",
   "U+07F0", "U+07F1", "U+07F2", "U+07F3", "U+07F4", "U+07F5", "U+07FA", "U+07FD",
   "U+0816", "U+0817", "U+0818", "U+0819", "U+081A", "U+081B", "U+081C", "U+081D",
   "U+081E", "U+081F", "U+0820", "U+0821", "U+0822", "U+0823", "U+0824", "U+0825",
   "U+0826", "U+0827", "U+0828", "U+0829", "U+082A", "U+082B", "U+082C", "U+082D",
   "U+0859", "U+085A", "U+085B", "U+0888", "U+0890", "U+0891", "U+0897", "U+0898",
   "U+0899", "U+089A", "U+089B", "U+089C", "U+089D", "U+089E", "U+089F", "U+08C9",
   "U+08CA", "U+08CB", "U+08CC", "U+08CD", "U+08CE", "U+08CF", "U+08D0", "U+08D1",
   "U+08D2", "U+08D3", "U+08D4", "U+08D5", "U+08D6", "U+08D7", "U+08D8", "U+08D9",
   "U+08DA", "U+08DB", "U+08DC", "U+08DD", "U+08DE", "U+08DF", "U+08E0", "U+08E1",
   "U+08E2", "U+08E3", "U+08E4", "U+08E5", "U+08E6", "U+08E7", "U+08E8", "U+08E9",
   "U+08EA", "U+08EB", "U+08EC", "U+08ED", "U+08EE", "U+08EF", "U+08F0", "U+08F1",
   "U+08F2", "U+08F3", "U+08F4", "U+08F5", "U+08F6", "U+08F7", "U+08F8", "U+08F9",
   "U+08FA", "U+08FB", "U+08FC", "U+08FD", "U+08FE", "U+08FF", "U+0900", "U+0901",
   "U+0902", "U+093A", "U+093C", "U+0941", "U+0942", "U+0943", "U+0944", "U+0945",
   "U+0946", "U+0947", "U+0948", "U+094D", "U+0951", "U+0952", "U+0953", "U+0954",
   "U+0955", "U+0956", "U+0957", "U+0962", "U+0963", "U+0971", "U+0981", "U+09BC",
   "U+09C1", "U+09C2", "U+09C3", "U+09C4", "U+09CD", "U+09E2", "U+09E3", "U+09FE",
   "U+0A01", "U+0A02", "U+0A3C", "U+0A41", "U+0A42", "U+0A47", "U+0A48", "U+0A4B",
   "U+0A4C", "U+0A4D", "U+0A51", "U+0A70", "U+0A71", "U+0A75", "U+0A81", "U+0A82",
   "U+0ABC", "U+0AC1", "U+0AC2", "U+0AC3", "U+0AC4", "U+0AC5", "U+0AC7", "U+0AC8",
   "U+0ACD", "U+0AE2", "U+0AE3", "U+0AFA", "U+0AFB", "U+0AFC", "U+0AFD", "U+0AFE",
   "U+0AFF", "U+0B01", "U+0B3C", "U+0B3F", "U+0B41", "U+0B42", "U+0B43", "U+0B44",
   "U+0B4D", "U+0B55", "U+0B56", "U+0B62", "U+0B63", "U+0B82", "U+0BC0", "U+0BCD",
   "U+0C00", "U+0C04", "U+0C3C", "U+0C3E", "U+0C3F", "U+0C40", "U+0C46", "U+0C47",
   "U+0C48", "U+0C4A", "U+0C4B", "U+0C4C", "U+0C4D", "U+0C55", "U+0C56", "U+0C62",
   "U+0C63", "U+0C81", "U+0CBC", "U+0CBF", "U+0CC6", "U+0CCC", "U+0CCD", "U+0CE2",
   "U+0CE3", "U+0D00", "U+0D01", "U+0D3B", "U+0D3C", "U+0D41", "U+0D42", "U+0D43",
   "U+0D44", "U+0D4D", "U+0D62", "U+0D63", "U+0D81", "U+0DCA", "U+0DD2", "U+0DD3",
   "U+0DD4", "U+0DD6", "U+0E31", "U+0E34", "U+0E35", "U+0E36", "U+0E37", "U+0E38",
   "U+0E39", "U+0E3A", "U+0E46", "U+0E47", "U+0E48", "U+0E49", "U+0E4A", "U+0E4B",
   "U+0E4C", "U+0E4D", "U+0E4E", "U+0EB1", "U+0EB4", "U+0EB5", "U+0EB6", "U+0EB7",
   "U+0EB8", "U+0EB9", "U+0EBA", "U+0EBB", "U+0EBC", "U+0EC6", "U+0EC8", "U+0EC9",
   "U+0ECA", "U+0ECB", "U+0ECC", "U+0ECD", "U+0ECE", "U+0F18", "U+0F19", "U+0F35",
   "U+0F37", "U+0F39", "U+0F71", "U+0F72", "U+0F73", "U+0F74", "U+0F75", "U+0F76",
   "U+0F77", "U+0F78", "U+0F79", "U+0F7A", "U+0F7B", "U+0F7C", "U+0F7D", "U+0F7E",
   "U+0F80", "U+0F81", "U+0F82", "U+0F83", "U+0F84", "U+0F86", "U+0F87", "U+0F8D",
   "U+0F8E", "U+0F8F", "U+0F90", "U+0F91", "U+0F92", "U+0F93", "U+0F94", "U+0F95",
   "U+0F96", "U+0F97", "U+0F99", "U+0F9A", "U+0F9B", "U+0F9C", "U+0F9D", "U+0F9E",
   "U+0F9F", "U+0FA0", "U+0FA1", "U+0FA2", "U+0FA3", "U+0FA4", "U+0FA5", "U+0FA6",
   "U+0FA7", "U+0FA8", "U+0FA9", "U+0FAA", "U+0FAB", "U+0FAC", "U+0FAD", "U+0FAE",
   "U+0FAF", "U+0FB0", "U+0FB1", "U+0FB2", "U+0FB3", "U+0FB4", "U+0FB5", "U+0FB6",
   "U+0FB7", "U+0FB8", "U+0FB9", "U+0FBA", "U+0FBB", "U+0FBC", "U+0FC6", "U+102D",
   "U+102E", "U+102F", "U+1030", "U+1032", "U+1033", "U+1034", "U+1035", "U+1036",
   "U+1037", "U+1039", "U+103A", "U+103D", "U+103E", "U+1058", "U+1059", "U+105E",
   "U+105F", "U+1060", "U+1071", "U+1072", "U+1073", "U+1074", "U+1082", "U+1085",
   "U+1086", "U+108D", "U+109D", "U+10FC", "U+135D", "U+135E", "U+135F", "U+1712",
   "U+1713", "U+1714", "U+1732", "U+1733", "U+1752", "U+1753", "U+1772", "U+1773",
   "U+17B4", "U+17B5", "U+17B7", "U+17B8", "U+17B9", "U+17BA", "U+17BB", "U+17BC",
   "U+17BD", "U+17C6", "U+17C9", "U+17CA", "U+17CB", "U+17CC", "U+17CD", "U+17CE",
   "U+17CF", "U+17D0", "U+17D1", "U+17D2", "U+17D3", "U+17D7", "U+17DD", "U+180B",
   "U+180C", "U+180D", "U+180E", "U+180F", "U+1843", "U+1885", "U+1886", "U+18A9",
   "U+1920", "U+1921", "U+1922", "U+1927", "U+1928", "U+1932", "U+1939", "U+193A",
   "U+193B", "U+1A17", "U+1A18", "U+1A1B", "U+1A56", "U+1A58", "U+1A59", "U+1A5A",
   "U+1A5B", "U+1A5C", "U+1A5D", "U+1A5E", "U+1A60", "U+1A62", "U+1A65", "U+1A66",
   "U+1A67", "U+1A68", "U+1A69", "U+1A6A", "U+1A6B", "U+1A6C", "U+1A73", "U+1A74",
   "U+1A75", "U+1A76", "U+1A77", "U+1A78", "U+1A79", "U+1A7A", "U+1A7B", "U+1A7C",
   "U+1A7F", "U+1AA7", "U+1AB0", "U+1AB1", "U+1AB2", "U+1AB3", "U+1AB4", "U+1AB5",
   "U+1AB6", "U+1AB7", "U+1AB8", "U+1AB9", "U+1ABA", "U+1ABB", "U+1ABC", "U+1ABD",
   "U+1ABE", "U+1ABF", "U+1AC0", "U+1AC1", "U+1AC2", "U+1AC3", "U+1AC4", "U+1AC5",
   "U+1AC6", "U+1AC7", "U+1AC8", "U+1AC9", "U+1ACA", "U+1ACB", "U+1ACC", "U+1ACD",
   "U+1ACE", "U+1ACF", "U+1AD0", "U+1AD1", "U+1AD2", "U+1AD3", "U+1AD4", "U+1AD5",
   "U+1AD6", "U+1AD7", "U+1AD8", "U+1AD9", "U+1ADA", "U+1ADB", "U+1ADC", "U+1ADD",
   "U+1AE0", "U+1AE1", "U+1AE2", "U+1AE3", "U+1AE4", "U+1AE5", "U+1AE6", "U+1AE7",
   "U+1AE8", "U+1AE9", "U+1AEA", "U+1AEB", "U+1B00", "U+1B01", "U+1B02", "U+1B03",
   "U+1B34", "U+1B36", "U+1B37", "U+1B38", "U+1B39", "U+1B3A", "U+1B3C", "U+1B42",
   "U+1B6B", "U+1B6C", "U+1B6D", "U+1B6E", "U+1B6F", "U+1B70", "U+1B71", "U+1B72",
   "U+1B73", "U+1B80", "U+1B81", "U+1BA2", "U+1BA3", "U+1BA4", "U+1BA5", "U+1BA8",
   "U+1BA9", "U+1BAB", "U+1BAC", "U+1BAD", "U+1BE6", "U+1BE8", "U+1BE9", "U+1BED",
   "U+1BEF", "U+1BF0", "U+1BF1", "U+1C2C", "U+1C2D", "U+1C2E", "U+1C2F", "U+1C30",
   "U+1C31", "U+1C32", "U+1C33", "U+1C36", "U+1C37", "U+1C78", "U+1C79", "U+1C7A",
   "U+1C7B", "U+1C7C", "U+1C7D", "U+1CD0", "U+1CD1", "U+1CD2", "U+1CD4", "U+1CD5",
   "U+1CD6", "U+1CD7", "U+1CD8", "U+1CD9", "U+1CDA", "U+1CDB", "U+1CDC", "U+1CDD",
   "U+1CDE", "U+1CDF", "U+1CE0", "U+1CE2", "U+1CE3", "U+1CE4", "U+1CE5", "U+1CE6",
   "U+1CE7", "U+1CE8", "U+1CED", "U+1CF4", "U+1CF8", "U+1CF9", "U+1D2C", "U+1D2D",
   "U+1D2E", "U+1D2F", "U+1D30", "U+1D31", "U+1D32", "U+1D33", "U+1D34", "U+1D35",
   "U+1D36", "U+1D37", "U+1D38", "U+1D39", "U+1D3A", "U+1D3B", "U+1D3C", "U+1D3D",
   "U+1D3E", "U+1D3F", "U+1D40", "U+1D41", "U+1D42", "U+1D43", "U+1D44", "U+1D45",
   "U+1D46", "U+1D47", "U+1D48", "U+1D49", "U+1D4A", "U+1D4B", "U+1D4C", "U+1D4D",
   "U+1D4E", "U+1D4F", "U+1D50", "U+1D51", "U+1D52", "U+1D53", "U+1D54", "U+1D55",
   "U+1D56", "U+1D57", "U+1D58", "U+1D59", "U+1D5A", "U+1D5B", "U+1D5C", "U+1D5D",
   "U+1D5E", "U+1D5F", "U+1D60", "U+1D61", "U+1D62", "U+1D63", "U+1D64", "U+1D65",
   "U+1D66", "U+1D67", "U+1D68", "U+1D69", "U+1D6A", "U+1D78", "U+1D9B", "U+1D9C",
   "U+1D9D", "U+1D9E", "U+1D9F", "U+1DA0", "U+1DA1", "U+1DA2", "U+1DA3", "U+1DA4",
   "U+1DA5", "U+1DA6", "U+1DA7", "U+1DA8", "U+1DA9", "U+1DAA", "U+1DAB", "U+1DAC",
   "U+1DAD", "U+1DAE", "U+1DAF", "U+1DB0", "U+1DB1", "U+1DB2", "U+1DB3", "U+1DB4",
   "U+1DB5", "U+1DB6", "U+1DB7", "U+1DB8", "U+1DB9", "U+1DBA", "U+1DBB", "U+1DBC",
   "U+1DBD", "U+1DBE", "U+1DBF", "U+1DC0", "U+1DC1", "U+1DC2", "U+1DC3", "U+1DC4",
   "U+1DC5", "U+1DC6", "U+1DC7", "U+1DC8", "U+1DC9", "U+1DCA", "U+1DCB", "U+1DCC",
   "U+1DCD", "U+1DCE", "U+1DCF", "U+1DD0", "U+1DD1", "U+1DD2", "U+1DD3", "U+1DD4",
   "U+1DD5", "U+1DD6", "U+1DD7", "U+1DD8", "U+1DD9", "U+1DDA", "U+1DDB", "U+1DDC",
   "U+1DDD", "U+1DDE", "U+1DDF", "U+1DE0", "U+1DE1", "U+1DE2", "U+1DE3", "U+1DE4",
   "U+1DE5", "U+1DE6", "U+1DE7", "U+1DE8", "U+1DE9", "U+1DEA", "U+1DEB", "U+1DEC",
   "U+1DED", "U+1DEE", "U+1DEF", "U+1DF0", "U+1DF1", "U+1DF2", "U+1DF3", "U+1DF4",
   "U+1DF5", "U+1DF6", "U+1DF7", "U+1DF8", "U+1DF9", "U+1DFA", "U+1DFB", "U+1DFC",
   "U+1DFD", "U+1DFE", "U+1DFF", "U+1FBD", "U+1FBF", "U+1FC0", "U+1FC1", "U+1FCD",
   "U+1FCE", "U+1FCF", "U+1FDD", "U+1FDE", "U+1FDF", "U+1FED", "U+1FEE", "U+1FEF",
   "U+1FFD", "U+1FFE", "U+200B", "U+200C", "U+200D", "U+200E", "U+200F", "U+2018",
   "U+2019", "U+2024", "U+2027", "U+202A", "U+202B", "U+202C", "U+202D", "U+202E",
   "U+2060", "U+2061", "U+2062", "U+2063", "U+2064", "U+2066", "U+2067", "U+2068",
   "U+2069", "U+206A", "U+206B", "U+206C", "U+206D", "U+206E", "U+206F", "U+2071",
   "U+207F", "U+2090", "U+2091", "U+2092", "U+2093", "U+2094", "U+2095", "U+2096",
   "U+2097", "U+2098", "U+2099", "U+209A", "U+209B", "U+209C", "U+20D0", "U+20D1",
   "U+20D2", "U+20D3", "U+20D4", "U+20D5", "U+20D6", "U+20D7", "U+20D8", "U+20D9",
   "U+20DA", "U+20DB", "U+20DC", "U+20DD", "U+20DE", "U+20DF", "U+20E0", "U+20E1",
   "U+20E2", "U+20E3", "U+20E4", "U+20E5", "U+20E6", "U+20E7", "U+20E8", "U+20E9",
   "U+20EA", "U+20EB", "U+20EC", "U+20ED", "U+20EE", "U+20EF", "U+20F0", "U+2C7C",
   "U+2C7D", "U+2CEF", "U+2CF0", "U+2CF1", "U+2D6F", "U+2D7F", "U+2DE0", "U+2DE1",
   "U+2DE2", "U+2DE3", "U+2DE4", "U+2DE5", "U+2DE6", "U+2DE7", "U+2DE8", "U+2DE9",
   "U+2DEA", "U+2DEB", "U+2DEC", "U+2DED", "U+2DEE", "U+2DEF", "U+2DF0", "U+2DF1",
   "U+2DF2", "U+2DF3", "U+2DF4", "U+2DF5", "U+2DF6", "U+2DF7", "U+2DF8", "U+2DF9",
   "U+2DFA", "U+2DFB", "U+2DFC", "U+2DFD", "U+2DFE", "U+2DFF", "U+2E2F", "U+3005",
   "U+302A", "U+302B", "U+302C", "U+302D", "U+3031", "U+3032", "U+3033", "U+3034",
   "U+3035", "U+303B", "U+3099", "U+309A", "U+309B", "U+309C", "U+309D", "U+309E",
   "U+30FC", "U+30FD", "U+30FE", "U+A015", "U+A4F8", "U+A4F9", "U+A4FA", "U+A4FB",
   "U+A4FC", "U+A4FD", "U+A60C", "U+A66F", "U+A670", "U+A671", "U+A672", "U+A674",
   "U+A675", "U+A676", "U+A677", "U+A678", "U+A679", "U+A67A", "U+A67B", "U+A67C",
   "U+A67D", "U+A67F", "U+A69C", "U+A69D", "U+A69E", "U+A69F", "U+A6F0", "U+A6F1",
   "U+A700", "U+A701", "U+A702", "U+A703", "U+A704", "U+A705", "U+A706", "U+A707",
   "U+A708", "U+A709", "U+A70A", "U+A70B", "U+A70C", "U+A70D", "U+A70E", "U+A70F",
   "U+A710", "U+A711", "U+A712", "U+A713", "U+A714", "U+A715", "U+A716", "U+A717",
   "U+A718", "U+A719", "U+A71A", "U+A71B", "U+A71C", "U+A71D", "U+A71E", "U+A71F",
   "U+A720", "U+A721", "U+A770", "U+A788", "U+A789", "U+A78A", "U+A7F1", "U+A7F2",
   "U+A7F3", "U+A7F4", "U+A7F8", "U+A7F9", "U+A802", "U+A806", "U+A80B", "U+A825",
   "U+A826", "U+A82C", "U+A8C4", "U+A8C5", "U+A8E0", "U+A8E1", "U+A8E2", "U+A8E3",
   "U+A8E4", "U+A8E5", "U+A8E6", "U+A8E7", "U+A8E8", "U+A8E9", "U+A8EA", "U+A8EB",
   "U+A8EC", "U+A8ED", "U+A8EE", "U+A8EF", "U+A8F0", "U+A8F1", "U+A8FF", "U+A926",
   "U+A927", "U+A928", "U+A929", "U+A92A", "U+A92B", "U+A92C", "U+A92D", "U+A947",
   "U+A948", "U+A949", "U+A94A", "U+A94B", "U+A94C", "U+A94D", "U+A94E", "U+A94F",
   "U+A950", "U+A951", "U+A980", "U+A981", "U+A982", "U+A9B3", "U+A9B6", "U+A9B7",
   "U+A9B8", "U+A9B9", "U+A9BC", "U+A9BD", "U+A9CF", "U+A9E5", "U+A9E6", "U+AA29",
   "U+AA2A", "U+AA2B", "U+AA2C", "U+AA2D", "U+AA2E", "U+AA31", "U+AA32", "U+AA35",
   "U+AA36", "U+AA43", "U+AA4C", "U+AA70", "U+AA7C", "U+AAB0", "U+AAB2", "U+AAB3",
   "U+AAB4", "U+AAB7", "U+AAB8", "U+AABE", "U+AABF", "U+AAC1", "U+AADD", "U+AAEC",
   "U+AAED", "U+AAF3", "U+AAF4", "U+AAF6", "U+AB5B", "U+AB5C", "U+AB5D", "U+AB5E",
   "U+AB5F", "U+AB69", "U+AB6A", "U+AB6B", "U+ABE5", "U+ABE8", "U+ABED", "U+FB1E",
   "U+FBB2", "U+FBB3", "U+FBB4", "U+FBB5", "U+FBB6", "U+FBB7", "U+FBB8", "U+FBB9",
   "U+FBBA", "U+FBBB", "U+FBBC", "U+FBBD", "U+FBBE", "U+FBBF", "U+FBC0", "U+FBC1",
   "U+FBC2", "U+FE00", "U+FE01", "U+FE02", "U+FE03", "U+FE04", "U+FE05", "U+FE06",
   "U+FE07", "U+FE08", "U+FE09", "U+FE0A", "U+FE0B", "U+FE0C", "U+FE0D", "U+FE0E",
   "U+FE0F", "U+FE13", "U+FE20", "U+FE21", "U+FE22", "U+FE23", "U+FE24", "U+FE25",
   "U+FE26", "U+FE27", "U+FE28", "U+FE29", "U+FE2A", "U+FE2B", "U+FE2C", "U+FE2D",
   "U+FE2E", "U+FE2F", "U+FE52", "U+FE55", "U+FEFF", "U+FF07", "U+FF0E", "U+FF1A",
   "U+FF3E", "U+FF40", "U+FF70", "U+FF9E", "U+FF9F", "U+FFE3", "U+FFF9", "U+FFFA",
   "U+FFFB"
  }

\* the same among the surrogate pairs, by lead surrogate
SupplementaryCaseIgnorable ==
  <<
   "U+D800", {"U+DDFD", "U+DEE0", "U+DF76", "U+DF77", "U+DF78", "U+DF79", "U+DF7A"},
   "U+D801", {"U+DF80", "U+DF81", "U+DF82", "U+DF83", "U+DF84", "U+DF85", "U+DF87",
   "U+DF88", "U+DF89", "U+DF8A", "U+DF8B", "U+DF8C", "U+DF8D", "U+DF8E", "U+DF8F",
   "U+DF90", "U+DF91", "U+DF92", "U+DF93", "U+DF94", "U+DF95", "U+DF96", "U+DF97",
   "U+DF98", "U+DF99", "U+DF9A", "U+DF9B", "U+DF9C", "U+DF9D", "U+DF9E", "U+DF9F",
   "U+DFA0", "U+DFA1", "U+DFA2", "U+DFA3", "U+DFA4", "U+DFA5", "U+DFA6", "U+DFA7",
   "U+DFA8", "U+DFA9", "U+DFAA", "U+DFAB", "U+DFAC", "U+DFAD", "U+DFAE", "U+DFAF",
   "U+DFB0", "U+DFB2", "U+DFB3", "U+DFB4", "U+DFB5", "U+DFB6", "U+DFB7", "U+DFB8",
   "U+DFB9", "U+DFBA"},
   "U+D802", {"U+DE01", "U+DE02", "U+DE03", "U+DE05", "U+DE06", "U+DE0C", "U+DE0D",
   "U+DE0E", "U+DE0F", "U+DE38", "U+DE39", "U+DE3A", "U+DE3F", "U+DEE5", "U+DEE6"},
   "U+D803", {"U+DD24", "U+DD25", "U+DD26", "U+DD27", "U+DD4E", "U+DD69", "U+DD6A",
   "U+DD6B", "U+DD6C", "U+DD6D", "U+DD6F", "U+DEAB", "U+DEAC", "U+DEC5", "U+DEFA",
   "U+DEFB", "U+DEFC", "U+DEFD", "U+DEFE", "U+DEFF", "U+DF46", "U+DF47", "U+DF48",
   "U+DF49", "U+DF4A", "U+DF4B", "U+DF4C", "U+DF4D", "U+DF4E", "U+DF4F", "U+DF50",
   "U+DF82", "U+DF83", "U+DF84", "U+DF85"},
   "U+D804", {"U+DC01", "U+DC38", "U+DC39", "U+DC3A", "U+DC3B", "U+DC3C", "U+DC3D",
   "U+DC3E", "U+DC3F", "U+DC40", "U+DC41", "U+DC42", "U+DC43", "U+DC44", "U+DC45",
   "U+DC46", "U+DC70", "U+DC73", "U+DC74", "U+DC7F", "U+DC80", "U+DC81", "U+DCB3",
   "U+DCB4", "U+DCB5", "U+DCB6", "U+DCB9", "U+DCBA", "U+DCBD", "U+DCC2", "U+DCCD",
   "U+DD00", "U+DD01", "U+DD02", "U+DD27", "U+DD28", "U+DD29", "U+DD2A", "U+DD2B",
   "U+DD2D", "U+DD2E", "U+DD2F", "U+DD30", "U+DD31", "U+DD32", "U+DD33", "U+DD34",
   "U+DD73", "U+DD80", "U+DD81", "U+DDB6", "U+DDB7", "U+DDB8", "U+DDB9", "U+DDBA",
   "U+DDBB", "U+DDBC", "U+DDBD", "U+DDBE", "U+DDC9", "U+DDCA", "U+DDCB", "U+DDCC",
   "U+DDCF", "U+DE2F", "U+DE30", "U+DE31", "U+DE34", "U+DE36", "U+DE37", "U+DE3E",
   "U+DE41", "U+DEDF", "U+DEE3", "U+DEE4", "U+DEE5", "U+DEE6", "U+DEE7", "U+DEE8",
   "U+DEE9", "U+DEEA", "U+DF00", "U+DF01", "U+DF3B", "U+DF3C", "U+DF40", "U+DF66",
   "U+DF67", "U+DF68", "U+DF69", "U+DF6A", "U+DF6B", "U+DF6C", "U+DF70", "U+DF71",
   "U+DF72", "U+DF73", "U+DF74", "U+DFBB", "U+DFBC", "U+DFBD", "U+DFBE", "U+DFBF",
   "U+DFC0", "U+DFCE", "U+DFD0", "U+DFD2", "U+DFE1", "U+DFE2"},
   "U+D805", {"U+DC38", "U+DC39", "U+DC3A", "U+DC3B", "U+DC3C", "U+DC3D", "U+DC3E",
   "U+DC3F", "U+DC42", "U+DC43", "U+DC44", "U+DC46", "U+DC5E", "U+DCB3", "U+DCB4",
   "U+DCB5", "U+DCB6", "U+DCB7", "U+DCB8", "U+DCBA", "U+DCBF", "U+DCC0", "U+DCC2",
   "U+DCC3", "U+DDB2", "U+DDB3", "U+DDB4", "U+DDB5", "U+DDBC", "U+DDBD", "U+DDBF",
   "U+DDC0", "U+DDDC", "U+DDDD", "U+DE33", "U+DE34", "U+DE35", "U+DE36", "U+DE37",
   "U+DE38", "U+DE39", "U+DE3A", "U+DE3D", "U+DE3F", "U+DE40", "U+DEAB", "U+DEAD",
   "U+DEB0", "U+DEB1", "U+DEB2", "U+DEB3", "U+DEB4", "U+DEB5", "U+DEB7", "U+DF1D",
   "U+DF1F", "U+DF22", "U+DF23", "U+DF24", "U+DF25", "U+DF27", "U+DF28", "U+DF29",
   "U+DF2A", "U+DF2B"},
   "U+D806", {"U+DC2F", "U+DC30", "U+DC31", "U+DC32", "U+DC33", "U+DC34", "U+DC35",
   "U+DC36", "U+DC37", "U+DC39", "U+DC3A", "U+DD3B", "U+DD3C", "U+DD3E", "U+DD43",
   "U+DDD4", "U+DDD5", "U+DDD6", "U+DDD7", "U+DDDA", "U+DDDB", "U+DDE0", "U+DE01",
   "U+DE02", "U+DE03", "U+DE04", "U+DE05", "U+DE06", "U+DE07", "U+DE08", "U+DE09",
   "U+DE0A", "U+DE33", "U+DE34", "U+DE35", "U+DE36", "U+DE37", "U+DE38", "U+DE3B",
   "U+DE3C", "U+DE3D", "U+DE3E", "U+DE47", "U+DE51", "U+DE52", "U+DE53", "U+DE54",
   "U+DE55", "U+DE56", "U+DE59", "U+DE5A", "U+DE5B", "U+DE8A", "U+DE8B", "U+DE8C",
   "U+DE8D", "U+DE8E", "U+DE8F", "U+DE90", "U+DE91", "U+DE92", "U+DE93", "U+DE94",
   "U+DE95", "U+DE96", "U+DE98", "U+DE99", "U+DF60", "U+DF62", "U+DF63", "U+DF64",
   "U+DF66"},
   "U+D807", {"U+DC30", "U+DC31", "U+DC32", "U+DC33", "U+DC34", "U+DC35", "U+DC36",
   "U+DC38", "U+DC39", "U+DC3A", "U+DC3B", "U+DC3C", "U+DC3D", "U+DC3F", "U+DC92",
   "U+DC93", "U+DC94", "U+DC95", "U+DC96", "U+DC97", "U+DC98", "U+DC99", "U+DC9A",
   "U+DC9B", "U+DC9C", "U+DC9D", "U+DC9E", "U+DC9F", "U+DCA0", "U+DCA1", "U+DCA2",
   "U+DCA3", "U+DCA4", "U+DCA5", "U+DCA6", "U+DCA7", "U+DCAA", "U+DCAB", "U+DCAC",
   "U+DCAD", "U+DCAE", "U+DCAF", "U+DCB0", "U+DCB2", "U+DCB3", "U+DCB5", "U+DCB6",
   "U+DD31", "U+DD32", "U+DD33", "U+DD34", "U+DD35", "U+DD36", "U+DD3A", "U+DD3C",
   "U+DD3D", "U+DD3F", "U+DD40", "U+DD41", "U+DD42", "U+DD43", "U+DD44", "U+DD45",
   "U+DD47", "U+DD90", "U+DD91", "U+DD95", "U+DD97", "U+DDD9", "U+DEF3", "U+DEF4",
   "U+DF00", "U+DF01", "U+DF36", "U+DF37", "U+DF38", "U+DF39", "U+DF3A", "U+DF40",
   "U+DF42", "U+DF5A"},
   "U+D80D", {"U+DC30", "U+DC31", "U+DC32", "U+DC33", "U+DC34", "U+DC35", "U+DC36",
   "U+DC37", "U+DC38", "U+DC39", "U+DC3A", "U+DC3B", "U+DC3C", "U+DC3D", "U+DC3E",
   "U+DC3F", "U+DC40", "U+DC47", "U+DC48", "U+DC49", "U+DC4A", "U+DC4B", "U+DC4C",
   "U+DC4D", "U+DC4E", "U+DC4F", "U+DC50", "U+DC51", "U+DC52", "U+DC53", "U+DC54",
   "U+DC55"},
   "U+D818", {"U+DD1E", "U+DD1F", "U+DD20", "U+DD21", "U+DD22", "U+DD23", "U+DD24",
   "U+DD25", "U+DD26", "U+DD27", "U+DD28", "U+DD29", "U+DD2D", "U+DD2E", "U+DD2F"},
   "U+D81A", {"U+DEF0", "U+DEF1", "U+DEF2", "U+DEF3", "U+DEF4", "U+DF30", "U+DF31",
   "U+DF32", "U+DF33", "U+DF34", "U+DF35", "U+DF36", "U+DF40", "U+DF41", "U+DF42",
   "U+DF43"},
   "U+D81B", {"U+DD40", "U+DD41", "U+DD42", "U+DD6B", "U+DD6C", "U+DF4F", "U+DF8F",
   "U+DF90", "U+DF91", "U+DF92", "U+DF93", "U+DF94", "U+DF95", "U+DF96", "U+DF97",
   "U+DF98", "U+DF99", "U+DF9A", "U+DF9B", "U+DF9C", "U+DF9D", "U+DF9E", "U+DF9F",
   "U+DFE0", "U+DFE1", "U+DFE3", "U+DFE4", "U+DFF2", "U+DFF3"},
   "U+D82B", {"U+DFF0", "U+DFF1", "U+DFF2", "U+DFF3", "U+DFF5", "U+DFF6", "U+DFF7",
   "U+DFF8", "U+DFF9", "U+DFFA", "U+DFFB", "U+DFFD", "U+DFFE"},
   "U+D82F", {"U+DC9D", "U+DC9E", "U+DCA0", "U+DCA1", "U+DCA2", "U+DCA3"},
   "U+D833", {"U+DF00", "U+DF01", "U+DF02", "U+DF03", "U+DF04", "U+DF05", "U+DF06",
   "U+DF07", "U+DF08", "U+DF09", "U+DF0A", "U+DF0B", "U+DF0C", "U+DF0D", "U+DF0E",
   "U+DF0F", "U+DF10", "U+DF11", "U+DF12", "U+DF13", "U+DF14", "U+DF15", "U+DF16",
   "U+DF17", "U+DF18", "U+DF19", "U+DF1A", "U+DF1B", "U+DF1C", "U+DF1D", "U+DF1E",
   "U+DF1F", "U+DF20", "U+DF21", "U+DF22", "U+DF23", "U+DF24", "U+DF25", "U+DF26",
   "U+DF27", "U+DF28", "U+DF29", "U+DF2A", "U+DF2B", "U+DF2C", "U+DF2D", "U+DF30",
   "U+DF31", "U+DF32", "U+DF33", "U+DF34", "U+DF35", "U+DF36", "U+DF37", "U+DF38",
   "U+DF39", "U+DF3A", "U+DF3B", "U+DF3C", "U+DF3D", "U+DF3E", "U+DF3F", "U+DF40",
   "U+DF41", "U+DF42", "U+DF43", "U+DF44", "U+DF45", "U+DF46"},
   "U+D834", {"U+DD67", "U+DD68", "U+DD69", "U+DD73", "U+DD74", "U+DD75", "U+DD76",
   "U+DD77", "U+DD78", "U+DD79", "U+DD7A", "U+DD7B", "U+DD7C", "U+DD7D", "U+DD7E",
   "U+DD7F", "U+DD80", "U+DD81", "U+DD82", "U+DD85", "U+DD86", "U+DD87", "U+DD88",
   "U+DD89", "U+DD8A", "U+DD8B", "U+DDAA", "U+DDAB", "U+DDAC", "U+DDAD", "U+DE42",
   "U+DE43", "U+DE44"},
   "U+D836", {"U+DE00", "U+DE01", "U+DE02", "U+DE03", "U+DE04", "U+DE05", "U+DE06",
   "U+DE07", "U+DE08", "U+DE09", "U+DE0A", "U+DE0B", "U+DE0C", "U+DE0D", "U+DE0E",
   "U+DE0F", "U+DE10", "U+DE11", "U+DE12", "U+DE13", "U+DE14", "U+DE15", "U+DE16",
   "U+DE17", "U+DE18", "U+DE19", "U+DE1A", "U+DE1B", "U+DE1C", "U+DE1D", "U+DE1E",
   "U+DE1F", "U+DE20", "U+DE21", "U+DE22", "U+DE23", "U+DE24", "U+DE25", "U+DE26",
   "U+DE27", "U+DE28", "U+DE29", "U+DE2A", "U+DE2B", "U+DE2C", "U+DE2D", "U+DE2E",
   "U+DE2F", "U+DE30", "U+DE31", "U+DE32", "U+DE33", "U+DE34", "U+DE35", "U+DE36",
   "U+DE3B", "U+DE3C", "U+DE3D", "U+DE3E", "U+DE3F", "U+DE40", "U+DE41", "U+DE42",
   "U+DE43", "U+DE44", "U+DE45", "U+DE46", "U+DE47", "U+DE48", "U+DE49", "U+DE4A",
   "U+DE4B", "U+DE4C", "U+DE4D", "U+DE4E", "U+DE4F", "U+DE50", "U+DE51", "U+DE52",
   "U+DE53", "U+DE54", "U+DE55", "U+DE56", "U+DE57", "U+DE58", "U+DE59", "U+DE5A",
   "U+DE5B", "U+DE5C", "U+DE5D", "U+DE5E", "U+DE5F", "U+DE60", "U+DE61", "U+DE62",
   "U+DE63", "U+DE64", "U+DE65", "U+DE66", "U+DE67", "U+DE68", "U+DE69", "U+DE6A",
   "U+DE6B", "U+DE6C", "U+DE75", "U+DE84", "U+DE9B", "U+DE9C", "U+DE9D", "U+DE9E",
   "U+DE9F", "U+DEA1", "U+DEA2", "U+DEA3", "U+DEA4", "U+DEA5", "U+DEA6", "U+DEA7",
   "U+DEA8", "U+DEA9", "U+DEAA", "U+DEAB", "U+DEAC", "U+DEAD", "U+DEAE", "U+DEAF"},
   "U+D838", {"U+DC00", "U+DC01", "U+DC02", "U+DC03", "U+DC04", "U+DC05", "U+DC06",
   "U+DC08", "U+DC09", "U+DC0A", "U+DC0B", "U+DC0C", "U+DC0D", "U+DC0E", "U+DC0F",
   "U+DC10", "U+DC11", "U+DC12", "U+DC13", "U+DC14", "U+DC15", "U+DC16", "U+DC17",
   "U+DC18", "U+DC1B", "U+DC1C", "U+DC1D", "U+DC1E", "U+DC1F", "U+DC20", "U+DC21",
   "U+DC23", "U+DC24", "U+DC26", "U+DC27", "U+DC28", "U+DC29", "U+DC2A", "U+DC30",
   "U+DC31", "U+DC32", "U+DC33", "U+DC34", "U+DC35", "U+DC36", "U+DC37", "U+DC38",
   "U+DC39", "U+DC3A", "U+DC3B", "U+DC3C", "U+DC3D", "U+DC3E", "U+DC3F", "U+DC40",
   "U+DC41", "U+DC42", "U+DC43", "U+DC44", "U+DC45", "U+DC46", "U+DC47", "U+DC48",
   "U+DC49", "U+DC4A", "U+DC4B", "U+DC4C", "U+DC4D", "U+DC4E", "U+DC4F", "U+DC50",
   "U+DC51", "U+DC52", "U+DC53", "U+DC54", "U+DC55", "U+DC56", "U+DC57", "U+DC58",
   "U+DC59", "U+DC5A", "U+DC5B", "U+DC5C", "U+DC5D", "U+DC5E", "U+DC5F", "U+DC60",
   "U+DC61", "U+DC62", "U+DC63", "U+DC64", "U+DC65", "U+DC66", "U+DC67", "U+DC68",
   "U+DC69", "U+DC6A", "U+DC6B", "U+DC6C", "U+DC6D", "U+DC8F", "U+DD30", "U+DD31",
   "U+DD32", "U+DD33", "U+DD34", "U+DD35", "U+DD36", "U+DD37", "U+DD38", "U+DD39",
   "U+DD3A", "U+DD3B", "U+DD3C", "U+DD3D", "U+DEAE", "U+DEEC", "U+DEED", "U+DEEE",
   "U+DEEF"},
   "U+D839", {"U+DCEB", "U+DCEC", "U+DCED", "U+DCEE", "U+DCEF", "U+DDEE", "U+DDEF",
   "U+DEE3", "U+DEE6", "U+DEEE", "U+DEEF", "U+DEF5", "U+DEFF"},
   "U+D83A", {"U+DCD0", "U+DCD1", "U+DCD2", "U+DCD3", "U+DCD4", "U+DCD5", "U+DCD6",
   "U+DD44", "U+DD45", "U+DD46", "U+DD47", "U+DD48", "U+DD49", "U+DD4A", "U+DD4B"},
   "U+D83C", {"U+DFFB", "U+DFFC", "U+DFFD", "U+DFFE", "U+DFFF"},
   "U+DB40", {"U+DC01", "U+DC20", "U+DC21", "U+DC22", "U+DC23", "U+DC24", "U+DC25",
   "U+DC26", "U+DC27", "U+DC28", "U+DC29", "U+DC2A", "U+DC2B", "U+DC2C", "U+DC2D",
   "U+DC2E", "U+DC2F", "U+DC30", "U+DC31", "U+DC32", "U+DC33", "U+DC34", "U+DC35",
   "U+DC36", "U+DC37", "U+DC38", "U+DC39", "U+DC3A", "U+DC3B", "U+DC3C", "U+DC3D",
   "U+DC3E", "U+DC3F", "U+DC40", "U+DC41", "U+DC42", "U+DC43", "U+DC44", "U+DC45",
   "U+DC46", "U+DC47", "U+DC48", "U+DC49", "U+DC4A", "U+DC4B", "U+DC4C", "U+DC4D",
   "U+DC4E", "U+DC4F", "U+DC50", "U+DC51", "U+DC52", "U+DC53", "U+DC54", "U+DC55",
   "U+DC56", "U+DC57", "U+DC58", "U+DC59", "U+DC5A", "U+DC5B", "U+DC5C", "U+DC5D",
   "U+DC5E", "U+DC5F", "U+DC60", "U+DC61", "U+DC62", "U+DC63", "U+DC64", "U+DC65",
   "U+DC66", "U+DC67", "U+DC68", "U+DC69", "U+DC6A", "U+DC6B", "U+DC6C", "U+DC6D",
   "U+DC6E", "U+DC6F", "U+DC70", "U+DC71", "U+DC72", "U+DC73", "U+DC74", "U+DC75",
   "U+DC76", "U+DC77", "U+DC78", "U+DC79", "U+DC7A", "U+DC7B", "U+DC7C", "U+DC7D",
   "U+DC7E", "U+DC7F", "U+DD00", "U+DD01", "U+DD02", "U+DD03", "U+DD04", "U+DD05",
   "U+DD06", "U+DD07", "U+DD08", "U+DD09", "U+DD0A", "U+DD0B", "U+DD0C", "U+DD0D",
   "U+DD0E", "U+DD0F", "U+DD10", "U+DD11", "U+DD12", "U+DD13", "U+DD14", "U+DD15",
   "U+DD16", "U+DD17", "U+DD18", "U+DD19", "U+DD1A", "U+DD1B", "U+DD1C", "U+DD1D",
   "U+DD1E", "U+DD1F", "U+DD20", "U+DD21", "U+DD22", "U+DD23", "U+DD24", "U+DD25",
   "U+DD26", "U+DD27", "U+DD28", "U+DD29", "U+DD2A", "U+DD2B", "U+DD2C", "U+DD2D",
   "U+DD2E", "U+DD2F", "U+DD30", "U+DD31", "U+DD32", "U+DD33", "U+DD34", "U+DD35",
   "U+DD36", "U+DD37", "U+DD38", "U+DD39", "U+DD3A", "U+DD3B", "U+DD3C", "U+DD3D",
   "U+DD3E", "U+DD3F", "U+DD40", "U+DD41", "U+DD42", "U+DD43", "U+DD44", "U+DD45",
   "U+DD46", "U+DD47", "U+DD48", "U+DD49", "U+DD4A", "U+DD4B", "U+DD4C", "U+DD4D",
   "U+DD4E", "U+DD4F", "U+DD50", "U+DD51", "U+DD52", "U+DD53", "U+DD54", "U+DD55",
   "U+DD56", "U+DD57", "U+DD58", "U+DD59", "U+DD5A", "U+DD5B", "U+DD5C", "U+DD5D",
   "U+DD5E", "U+DD5F", "U+DD60", "U+DD61", "U+DD62", "U+DD63", "U+DD64", "U+DD65",
   "U+DD66", "U+DD67", "U+DD68", "U+DD69", "U+DD6A", "U+DD6B", "U+DD6C", "U+DD6D",
   "U+DD6E", "U+DD6F", "U+DD70", "U+DD71", "U+DD72", "U+DD73", "U+DD74", "U+DD75",
   "U+DD76", "U+DD77", "U+DD78", "U+DD79", "U+DD7A", "U+DD7B", "U+DD7C", "U+DD7D",
   "U+DD7E", "U+DD7F", "U+DD80", "U+DD81", "U+DD82", "U+DD83", "U+DD84", "U+DD85",
   "U+DD86", "U+DD87", "U+DD88", "U+DD89", "U+DD8A", "U+DD8B", "U+DD8C", "U+DD8D",
   "U+DD8E", "U+DD8F", "U+DD90", "U+DD91", "U+DD92", "U+DD93", "U+DD94", "U+DD95",
   "U+DD96", "U+DD97", "U+DD98", "U+DD99", "U+DD9A", "U+DD9B", "U+DD9C", "U+DD9D",
   "U+DD9E", "U+DD9F", "U+DDA0", "U+DDA1", "U+DDA2", "U+DDA3", "U+DDA4", "U+DDA5",
   "U+DDA6", "U+DDA7", "U+DDA8", "U+DDA9", "U+DDAA", "U+DDAB", "U+DDAC", "U+DDAD",
   "U+DDAE", "U+DDAF", "U+DDB0", "U+DDB1", "U+DDB2", "U+DDB3", "U+DDB4", "U+DDB5",
   "U+DDB6", "U+DDB7", "U+DDB8", "U+DDB9", "U+DDBA", "U+DDBB", "U+DDBC", "U+DDBD",
   "U+DDBE", "U+DDBF", "U+DDC0", "U+DDC1", "U+DDC2", "U+DDC3", "U+DDC4", "U+DDC5",
   "U+DDC6", "U+DDC7", "U+DDC8", "U+DDC9", "U+DDCA", "U+DDCB", "U+DDCC", "U+DDCD",
   "U+DDCE", "U+DDCF", "U+DDD0", "U+DDD1", "U+DDD2", "U+DDD3", "U+DDD4", "U+DDD5",
   "U+DDD6", "U+DDD7", "U+DDD8", "U+DDD9", "U+DDDA", "U+DDDB", "U+DDDC", "U+DDDD",
   "U+DDDE", "U+DDDF", "U+DDE0", "U+DDE1", "U+DDE2", "U+DDE3", "U+DDE4", "U+DDE5",
   "U+DDE6", "U+DDE7", "U+DDE8", "U+DDE9", "U+DDEA", "U+DDEB", "U+DDEC", "U+DDED",
   "U+DDEE", "U+DDEF"}
  >>

\* the code units with the property Cased and without Case_Ignorable
Cased ==
  {
   "A", "B", "C", "D", "E", "F", "G", "H", "I", "J", "K", "L", "M", "N", "O", "P", "Q",
   "R", "S", "T", "U", "V", "W", "X", "Y", "Z", "a", "b", "c", "d", "e", "f", "g", "h",
   "i", "j", "k", "l", "m", "n", "o", "p", "q", "r", "s", "t", "u", "v", "w", "x", "y",
   "z", "U+00AA", "U+00B5", "U+00BA", "U+00C0", "U+00C1", "U+00C2", "U+00C3", "U+00C4",
   "U+00C5", "U+00C6", "U+00C7", "U+00C8", "U+00C9", "U+00CA", "U+00CB", "U+00CC",
   "U+00CD", "U+00CE", "U+00CF", "U+00D0", "U+00D1", "U+00D2", "U+00D3", "U+00D4",
   "U+00D5", "U+00D6", "U+00D8", "U+00D9", "U+00DA", "U+00DB", "U+00DC", "U+00DD",
   "U+00DE", "U+00DF", "U+00E0", "U+00E1", "U+00E2", "U+00E3", "U+00E4", "U+00E5",
   "U+00E6", "U+00E7", "U+00E8", "U+00E9", "U+00EA", "U+00EB", "U+00EC", "U+00ED",
   "U+00EE", "U+00EF", "U+00F0", "U+00F1", "U+00F2", "U+00F3", "U+00F4", "U+00F5",
   "U+00F6", "U+00F8", "U+00F9", "U+00FA", "U+00FB", "U+00FC", "U+00FD", "U+00FE",
   "U+00FF", "U+0100", "U+0101", "U+0102", "U+0103", "U+0104", "U+0105", "U+0106",
   "U+0107", "U+0108", "U+0109", "U+010A", "U+010B", "U+010C", "U+010D", "U+010E",
   "U+010F", "U+0110", "U+0111", "U+0112", "U+0113", "U+0114", "U+0115", "U+0116",
   "U+0117", "U+0118", "U+0119", "U+011A", "U+011B", "U+011C", "U+011D", "U+011E",
   "U+011F", "U+0120", "U+0121", "U+0122", "U+0123", "U+0124", "U+0125", "U+0126",
   "U+0127", "U+0128", "U+0129", "U+012A", "U+012B", "U+012C", "U+012D", "U+012E",
   "U+012F", "U+0130", "U+0131", "U+0132", "U+0133", "U+0134", "U+0135", "U+0136",
   "U+0137", "U+0138", "U+0139", "U+013A", "U+013B", "U+013C", "U+013D", "U+013E",
   "U+013F", "U+0140", "U+0141", "U+0142", "U+0143", "U+0144", "U+0145", "U+0146",
   "U+0147", "U+0148", "U+0149", "U+014A", "U+014B", "U+014C", "U+014D", "U+014E",
   "U+014F", "U+0150", "U+0151", "U+0152", "U+0153", "U+0154", "U+0155", "U+0156",
   "U+0157", "U+0158", "U+0159", "U+015A", "U+015B", "U+015C", "U+015D", "U+015E",
   "U+015F", "U+0160", "U+0161", "U+0162", "U+0163", "U+0164", "U+0165", "U+0166",
   "U+0167", "U+0168", "U+0169", "U+016A", "U+016B", "U+016C", "U+016D", "U+016E",
   "U+016F", "U+0170", "U+0171", "U+0172", "U+0173", "U+0174", "U+0175", "U+0176",
   "U+0177", "U+0178", "U+0179", "U+017A", "U+017B", "U+017C", "U+017D", "U+017E",
   "U+017F", "U+0180", "U+0181", "U+0182", "U+0183", "U+0184", "U+0185", "U+0186",
   "U+0187", "U+0188", "U+0189", "U+018A", "U+018B", "U+018C", "U+018D", "U+018E",
   "U+018F", "U+0190", "U+0191", "U+0192", "U+0193", "U+0194", "U+0195", "U+0196",
   "U+0197", "U+0198", "U+0199", "U+019A", "U+019B", "U+019C", "U+019D", "U+019E",
   "U+019F", "U+01A0", "U+01A1", "U+01A2", "U+01A3", "U+01A4", "U+01A5", "U+01A6",
   "U+01A7", "U+01A8", "U+01A9", "U+01AA", "U+01AB", "U+01AC", "U+01AD", "U+01AE",
   "U+01AF", "U+01B0", "U+01B1", "U+01B2", "U+01B3", "U+01B4", "U+01B5", "U+01B6",
   "U+01B7", "U+01B8", "U+01B9", "U+01BA", "U+01BC", "U+01BD", "U+01BE", "U+01BF",
   "U+01C4", "U+01C5", "U+01C6", "U+01C7", "U+01C8", "U+01C9", "U+01CA", "U+01CB",
   "U+01CC", "U+01CD", "U+01CE", "U+01CF", "U+01D0", "U+01D1", "U+01D2", "U+01D3",
   "U+01D4", "U+01D5", "U+01D6", "U+01D7", "U+01D8", "U+01D9", "U+01DA", "U+01DB",
   "U+01DC", "U+01DD", "U+01DE", "U+01DF", "U+01E0", "U+01E1", "U+01E2", "U+01E3",
   "U+01E4", "U+01E5", "U+01E6", "U+01E7", "U+01E8", "U+01E9", "U+01EA", "U+01EB",
   "U+01EC", "U+01ED", "U+01EE", "U+01EF", "U+01F0", "U+01F1", "U+01F2", "U+01F3",
   "U+01F4", "U+01F5", "U+01F6", "U+01F7", "U+01F8", "U+01F9", "U+01FA", "U+01FB",
   "U+01FC", "U+01FD", "U+01FE", "U+01FF", "U+0200", "U+0201", "U+0202", "U+0203",
   "U+0204", "U+0205", "U+0206", "U+0207", "U+0208", "U+0209", "U+020A", "U+020B",
   "U+020C", "U+020D", "U+020E", "U+020F", "U+0210", "U+0211", "U+0212", "U+0213",
   "U+0214", "U+0215", "U+0216", "U+0217", "U+0218", "U+0219", "U+021A", "U+021B",
   "U+021C", "U+021D", "U+021E", "U+021F", "U+0220", "U+0221", "U+0222", "U+0223",
   "U+0224", "U+0225", "U+0226", "U+0227", "U+0228", "U+0229", "U+022A", "U+022B",
   "U+022C", "U+022D", "U+022E", "U+022F", "U+0230", "U+0231", "U+0232", "U+0233",
   "U+0234", "U+0235", "U+0236", "U+0237", "U+0238", "U+0239", "U+023A", "U+023B",
   "U+023C", "U+023D", "U+023E", "U+023F", "U+0240", "U+0241", "U+0242", "U+0243",
   "U+0244", "U+0245", "U+0246", "U+0247", "U+0248", "U+0249", "U+024A", "U+024B",
   "U+024C", "U+024D", "U+024E", "U+024F", "U+0250", "U+0251", "U+0252", "U+0253",
   "U+0254", "U+0255", "U+0256", "U+0257", "U+0258", "U+0259", "U+025A", "U+025B",
   "U+025C", "U+025D", "U+025E", "U+025F", "U+0260", "U+0261", "U+0262", "U+0263",
   "U+0264", "U+0265", "U+0266", "U+0267", "U+0268", "U+0269", "U+026A", "U+026B",
   "U+026C", "U+026D", "U+026E", "U+026F", "U+0270", "U+0271", "U+0272", "U+0273",
   "U+0274", "U+0275", "U+0276", "U+0277", "U+0278", "U+0279", "U+027A", "U+027B",
   "U+027C", "U+027D", "U+027E", "U+027F", "U+0280", "U+0281", "U+0282", "U+0283",
   "U+0284", "U+0285", "U+0286", "U+0287", "U+0288", "U+0289", "U+028A", "U+028B",
   "U+028C", "U+028D", "U+028E", "U+028F", "U+0290", "U+0291", "U+0292", "U+0293",
   "U+0296", "U+0297", "U+0298", "U+0299", "U+029A", "U+029B", "U+029C", "U+029D",
   "U+029E", "U+029F", "U+02A0", "U+02A1", "U+02A2", "U+02A3", "U+02A4", "U+02A5",
   "U+02A6", "U+02A7", "U+02A8", "U+02A9", "U+02AA", "U+02AB", "U+02AC", "U+02AD",
   "U+02AE", "U+02AF", "U+0370", "U+0371", "U+0372", "U+0373", "U+0376", "U+0377",
   "U+037B", "U+037C", "U+037D", "U+037F", "U+0386", "U+0388", "U+0389", "U+038A",
   "U+038C", "U+038E", "U+038F", "U+0390", "U+0391", "U+0392", "U+0393", "U+0394",
   "U+0395", "U+0396", "U+0397", "U+0398", "U+0399", "U+039A", "U+039B", "U+039C",
   "U+039D", "U+039E", "U+039F", "U+03A0", "U+03A1", "U+03A3", "U+03A4", "U+03A5",
   "U+03A6", "U+03A7", "U+03A8", "U+03A9", "U+03AA", "U+03AB", "U+03AC", "U+03AD",
   "U+03AE", "U+03AF", "U+03B0", "U+03B1", "U+03B2", "U+03B3", "U+03B4", "U+03B5",
   "U+03B6", "U+03B7", "U+03B8", "U+03B9", "U+03BA", "U+03BB", "U+03BC", "U+03BD",
   "U+03BE", "U+03BF", "U+03C0", "U+03C1", "U+03C2", "U+03C3", "U+03C4", "U+03C5",
   "U+03C6", "U+03C7", "U+03C8", "U+03C9", "U+03CA", "U+03CB", "U+03CC", "U+03CD",
   "U+03CE", "U+03CF", "U+03D0", "U+03D1", "U+03D2", "U+03D3", "U+03D4", "U+03D5",
   "U+03D6", "U+03D7", "U+03D8", "U+03D9", "U+03DA", "U+03DB", "U+03DC", "U+03DD",
   "U+03DE", "U+03DF", "U+03E0", "U+03E1", "U+03E2", "U+03E3", "U+03E4", "U+03E5",
   "U+03E6", "U+03E7", "U+03E8", "U+03E9", "U+03EA", "U+03EB", "U+03EC", "U+03ED",
   "U+03EE", "U+03EF", "U+03F0", "U+03F1", "U+03F2", "U+03F3", "U+03F4", "U+03F5",
   "U+03F7", "U+03F8", "U+03F9", "U+03FA", "U+03FB", "U+03FC", "U+03FD", "U+03FE",
   "U+03FF", "U+0400", "U+0401", "U+0402", "U+0403", "U+0404", "U+0405", "U+0406",
   "U+0407", "U+0408", "U+0409", "U+040A", "U+040B", "U+040C", "U+040D", "U+040E",
   "U+040F", "U+0410", "U+0411", "U+0412", "U+0413", "U+0414", "U+0415", "U+0416",
   "U+0417", "U+0418", "U+0419", "U+041A", "U+041B", "U+041C", "U+041D", "U+041E",
   "U+041F", "U+0420", "U+0421", "U+0422", "U+0423", "U+0424", "U+0425", "U+0426",
   "U+0427", "U+0428", "U+0429", "U+042A", "U+042B", "U+042C", "U+042D", "U+042E",
   "U+042F", "U+0430", "U+0431", "U+0432", "U+0433", "U+0434", "U+0435", "U+0436",
   "U+0437", "U+0438", "U+0439", "U+043A", "U+043B", "U+043C", "U+043D", "U+043E",
   "U+043F", "U+0440", "U+0441", "U+0442", "U+0443", "U+0444", "U+0445", "U+0446",
   "U+0447", "U+0448", "U+0449", "U+044A", "U+044B", "U+044C", "U+044D", "U+044E",
   "U+044F", "U+0450", "U+0451", "U+0452", "U+0453", "U+0454", "U+0455", "U+0456",
   "U+0457", "U+0458", "U+0459", "U+045A", "U+045B", "U+045C", "U+045D", "U+045E",
   "U+045F", "U+0460", "U+0461", "U+0462", "U+0463", "U+0464", "U+0465", "U+0466",
   "U+0467", "U+0468", "U+0469", "U+046A", "U+046B", "U+046C", "U+046D", "U+046E",
   "U+046F", "U+0470", "U+0471", "U+0472", "U+0473", "U+0474", "U+0475", "U+0476",
   "U+0477", "U+0478", "U+0479", "U+047A", "U+047B", "U+047C", "U+047D", "U+047E",
   "U+047F", "U+0480", "U+0481", "U+048A", "U+048B", "U+048C", "U+048D", "U+048E",
   "U+048F", "U+0490", "U+0491", "U+0492", "U+0493", "U+0494", "U+0495", "U+0496",
   "U+0497", "U+0498", "U+0499", "U+049A", "U+049B", "U+049C", "U+049D", "U+049E",
   "U+049F", "U+04A0", "U+04A1", "U+04A2", "U+04A3", "U+04A4", "U+04A5", "U+04A6",
   "U+04A7", "U+04A8", "U+04A9", "U+04AA", "U+04AB", "U+04AC", "U+04AD", "U+04AE",
   "U+04AF", "U+04B0", "U+04B1", "U+04B2", "U+04B3", "U+04B4", "U+04B5", "U+04B6",
   "U+04B7", "U+04B8", "U+04B9", "U+04BA", "U+04BB", "U+04BC", "U+04BD", "U+04BE",
   "U+04BF", "U+04C0", "U+04C1", "U+04C2", "U+04C3", "U+04C4", "U+04C5", "U+04C6",
   "U+04C7", "U+04C8", "U+04C9", "U+04CA", "U+04CB", "U+04CC", "U+04CD", "U+04CE",
   "U+04CF", "U+04D0", "U+04D1", "U+04D2", "U+04D3", "U+04D4", "U+04D5", "U+04D6",
   "U+04D7", "U+04D8", "U+04D9", "U+04DA", "U+04DB", "U+04DC", "U+04DD", "U+04DE",
   "U+04DF", "U+04E0", "U+04E1", "U+04E2", "U+04E3", "U+04E4", "U+04E5", "U+04E6",
   "U+04E7", "U+04E8", "U+04E9", "U+04EA", "U+04EB", "U+04EC", "U+04ED", "U+04EE",
   "U+04EF", "U+04F0", "U+04F1", "U+04F2", "U+04F3", "U+04F4", "U+04F5", "U+04F6",
   "U+04F7", "U+04F8", "U+04F9", "U+04FA", "U+04FB", "U+04FC", "U+04FD", "U+04FE",
   "U+04FF", "U+0500", "U+0501", "U+0502", "U+0503", "U+0504", "U+0505", "U+0506",
   "U+0507", "U+0508", "U+0509", "U+050A", "U+050B", "U+050C", "U+050D", "U+050E",
   "U+050F", "U+0510", "U+0511", "U+0512", "U+0513", "U+0514", "U+0515", "U+0516",
   "U+0517", "U+0518", "U+0519", "U+051A", "U+051B", "U+051C", "U+051D", "U+051E",
   "U+051F", "U+0520", "U+0521", "U+0522", "U+0523", "U+0524", "U+0525", "U+0526",
   "U+0527", "U+0528", "U+0529", "U+052A", "U+052B", "U+052C", "U+052D", "U+052E",
   "U+052F", "U+0531", "U+0532", "U+0533", "U+0534", "U+0535", "U+0536", "U+0537",
   "U+0538", "U+0539", "U+053A", "U+053B", "U+053C", "U+053D", "U+053E", "U+053F",
   "U+0540", "U+0541", "U+0542", "U+0543", "U+0544", "U+0545", "U+0546", "U+0547",
   "U+0548", "U+0549", "U+054A", "U+054B", "U+054C", "U+054D", "U+054E", "U+054F",
   "U+0550", "U+0551", "U+0552", "U+0553", "U+0554", "U+0555", "U+0556", "U+0560",
   "U+0561", "U+0562", "U+0563", "U+0564", "U+0565", "U+0566", "U+0567", "U+0568",
   "U+0569", "U+056A", "U+056B", "U+056C", "U+056D", "U+056E", "U+056F", "U+0570",
   "U+0571", "U+0572", "U+0573", "U+0574", "U+0575", "U+0576", "U+0577", "U+0578",
   "U+0579", "U+057A", "U+057B", "U+057C", "U+057D", "U+057E", "U+057F", "U+0580",
   "U+0581", "U+0582", "U+0583", "U+0584", "U+0585", "U+0586", "U+0587", "U+0588",
   "U+10A0", "U+10A1", "U+10A2", "U+10A3", "U+10A4", "U+10A5", "U+10A6", "U+10A7",
   "U+10A8", "U+10A9", "U+10AA", "U+10AB", "U+10AC", "U+10AD", "U+10AE", "U+10AF",
   "U+10B0", "U+10B1", "U+10B2", "U+10B3", "U+10B4", "U+10B5", "U+10B6", "U+10B7",
   "U+10B8", "U+10B9", "U+10BA", "U+10BB", "U+10BC", "U+10BD", "U+10BE", "U+10BF",
   "U+10C0", "U+10C1", "U+10C2", "U+10C3", "U+10C4", "U+10C5", "U+10C7", "U+10CD",
   "U+10D0", "U+10D1", "U+10D2", "U+10D3", "U+10D4", "U+10D5", "U+10D6", "U+10D7",
   "U+10D8", "U+10D9", "U+10DA", "U+10DB", "U+10DC", "U+10DD", "U+10DE", "U+10DF",
   "U+10E0", "U+10E1", "U+10E2", "U+10E3", "U+10E4", "U+10E5", "U+10E6", "U+10E7",
   "U+10E8", "U+10E9", "U+10EA", "U+10EB", "U+10EC", "U+10ED", "U+10EE", "U+10EF",
   "U+10F0", "U+10F1", "U+10F2", "U+10F3", "U+10F4", "U+10F5", "U+10F6", "U+10F7",
   "U+10F8", "U+10F9", "U+10FA", "U+10FD", "U+10FE", "U+10FF", "U+13A0", "U+13A1",
   "U+13A2", "U+13A3", "U+13A4", "U+13A5", "U+13A6", "U+13A7", "U+13A8", "U+13A9",
   "U+13AA", "U+13AB", "U+13AC", "U+13AD", "U+13AE", "U+13AF", "U+13B0", "U+13B1",
   "U+13B2", "U+13B3", "U+13B4", "U+13B5", "U+13B6", "U+13B7", "U+13B8", "U+13B9",
   "U+13BA", "U+13BB", "U+13BC", "U+13BD", "U+13BE", "U+13BF", "U+13C0", "U+13C1",
   "U+13C2", "U+13C3", "U+13C4", "U+13C5", "U+13C6", "U+13C7", "U+13C8", "U+13C9",
   "U+13CA", "U+13CB", "U+13CC", "U+13CD", "U+13CE", "U+13CF", "U+13D0", "U+13D1",
   "U+13D2", "U+13D3", "U+13D4", "U+13D5", "U+13D6", "U+13D7", "U+13D8", "U+13D9",
   "U+13DA", "U+13DB", "U+13DC", "U+13DD", "U+13DE", "U+13DF", "U+13E0", "U+13E1",
   "U+13E2", "U+13E3", "U+13E4", "U+13E5", "U+13E6", "U+13E7", "U+13E8", "U+13E9",
   "U+13EA", "U+13EB", "U+13EC", "U+13ED", "U+13EE", "U+13EF", "U+13F0", "U+13F1",
   "U+13F2", "U+13F3", "U+13F4", "U+13F5", "U+13F8", "U+13F9", "U+13FA", "U+13FB",
   "U+13FC", "U+13FD", "U+1C80", "U+1C81", "U+1C82", "U+1C83", "U+1C84", "U+1C85",
   "U+1C86", "U+1C87", "U+1C88", "U+1C89", "U+1C8A", "U+1C90", "U+1C91", "U+1C92",
   "U+1C93", "U+1C94", "U+1C95", "U+1C96", "U+1C97", "U+1C98", "U+1C99", "U+1C9A",
   "U+1C9B", "U+1C9C", "U+1C9D", "U+1C9E", "U+1C9F", "U+1CA0", "U+1CA1", "U+1CA2",
   "U+1CA3", "U+1CA4", "U+1CA5", "U+1CA6", "U+1CA7", "U+1CA8", "U+1CA9", "U+1CAA",
   "U+1CAB", "U+1CAC", "U+1CAD", "U+1CAE", "U+1CAF", "U+1CB0", "U+1CB1", "U+1CB2",
   "U+1CB3", "U+1CB4", "U+1CB5", "U+1CB6", "U+1CB7", "U+1CB8", "U+1CB9", "U+1CBA",
   "U+1CBD", "U+1CBE", "U+1CBF", "U+1D00", "U+1D01", "U+1D02", "U+1D03", "U+1D04",
   "U+1D05", "U+1D06", "U+1D07", "U+1D08", "U+1D09", "U+1D0A", "U+1D0B", "U+1D0C",
   "U+1D0D", "U+1D0E", "U+1D0F", "U+1D10", "U+1D11", "U+1D12", "U+1D13", "U+1D14",
   "U+1D15", "U+1D16", "U+1D17", "U+1D18", "U+1D19", "U+1D1A", "U+1D1B", "U+1D1C",
   "U+1D1D", "U+1D1E", "U+1D1F", "U+1D20", "U+1D21", "U+1D22", "U+1D23", "U+1D24",
   "U+1D25", "U+1D26", "U+1D27", "U+1D28", "U+1D29", "U+1D2A", "U+1D2B", "U+1D6B",
   "U+1D6C", "U+1D6D", "U+1D6E", "U+1D6F", "U+1D70", "U+1D71", "U+1D72", "U+1D73",
   "U+1D74", "U+1D75", "U+1D76", "U+1D77", "U+1D79", "U+1D7A", "U+1D7B", "U+1D7C",
   "U+1D7D", "U+1D7E", "U+1D7F", "U+1D80", "U+1D81", "U+1D82", "U+1D83", "U+1D84",
   "U+1D85", "U+1D86", "U+1D87", "U+1D88", "U+1D89", "U+1D8A", "U+1D8B", "U+1D8C",
   "U+1D8D", "U+1D8E", "U+1D8F", "U+1D90", "U+1D91", "U+1D92", "U+1D93", "U+1D94",
   "U+1D95", "U+1D96", "U+1D97", "U+1D98", "U+1D99", "U+1D9A", "U+1E00", "U+1E01",
   "U+1E02", "U+1E03", "U+1E04", "U+1E05", "U+1E06", "U+1E07", "U+1E08", "U+1E09",
   "U+1E0A", "U+1E0B", "U+1E0C", "U+1E0D", "U+1E0E", "U+1E0F", "U+1E10", "U+1E11",
   "U+1E12", "U+1E13", "U+1E14", "U+1E15", "U+1E16", "U+1E17", "U+1E18", "U+1E19",
   "U+1E1A", "U+1E1B", "U+1E1C", "U+1E1D", "U+1E1E", "U+1E1F", "U+1E20", "U+1E21",
   "U+1E22", "U+1E23", "U+1E24", "U+1E25", "U+1E26", "U+1E27", "U+1E28", "U+1E29",
   "U+1E2A", "U+1E2B", "U+1E2C", "U+1E2D", "U+1E2E", "U+1E2F", "U+1E30", "U+1E31",
   "U+1E32", "U+1E33", "U+1E34", "U+1E35", "U+1E36", "U+1E37", "U+1E38", "U+1E39",
   "U+1E3A", "U+1E3B", "U+1E3C", "U+1E3D", "U+1E3E", "U+1E3F", "U+1E40", "U+1E41",
   "U+1E42", "U+1E43", "U+1E44", "U+1E45", "U+1E46", "U+1E47", "U+1E48", "U+1E49",
   "U+1E4A", "U+1E4B", "U+1E4C", "U+1E4D", "U+1E4E", "U+1E4F", "U+1E50", "U+1E51",
   "U+1E52", "U+1E53", "U+1E54", "U+1E55", "U+1E56", "U+1E57", "U+1E58", "U+1E59",
   "U+1E5A", "U+1E5B", "U+1E5C", "U+1E5D", "U+1E5E", "U+1E5F", "U+1E60", "U+1E61",
   "U+1E62", "U+1E63", "U+1E64", "U+1E65", "U+1E66", "U+1E67", "U+1E68", "U+1E69",
   "U+1E6A", "U+1E6B", "U+1E6C", "U+1E6D", "U+1E6E", "U+1E6F", "U+1E70", "U+1E71",
   "U+1E72", "U+1E73", "U+1E74", "U+1E75", "U+1E76", "U+1E77", "U+1E78", "U+1E79",
   "U+1E7A", "U+1E7B", "U+1E7C", "U+1E7D", "U+1E7E", "U+1E7F", "U+1E80", "U+1E81",
   "U+1E82", "U+1E83", "U+1E84", "U+1E85", "U+1E86", "U+1E87", "U+1E88", "U+1E89",
   "U+1E8A", "U+1E8B", "U+1E8C", "U+1E8D", "U+1E8E", "U+1E8F", "U+1E90", "U+1E91",
   "U+1E92", "U+1E93", "U+1E94", "U+1E95", "U+1E96", "U+1E97", "U+1E98", "U+1E99",
   "U+1E9A", "U+1E9B", "U+1E9C", "U+1E9D", "U+1E9E", "U+1E9F", "U+1EA0", "U+1EA1",
   "U+1EA2", "U+1EA3", "U+1EA4", "U+1EA5", "U+1EA6", "U+1EA7", "U+1EA8", "U+1EA9",
   "U+1EAA", "U+1EAB", "U+1EAC", "U+1EAD", "U+1EAE", "U+1EAF", "U+1EB0", "U+1EB1",
   "U+1EB2", "U+1EB3", "U+1EB4", "U+1EB5", "U+1EB6", "U+1EB7", "U+1EB8", "U+1EB9",
   "U+1EBA", "U+1EBB", "U+1EBC", "U+1EBD", "U+1EBE", "U+1EBF", "U+1EC0", "U+1EC1",
   "U+1EC2", "U+1EC3", "U+1EC4", "U+1EC5", "U+1EC6", "U+1EC7", "U+1EC8", "U+1EC9",
   "U+1ECA", "U+1ECB", "U+1ECC", "U+1ECD", "U+1ECE", "U+1ECF", "U+1ED0", "U+1ED1",
   "U+1ED2", "U+1ED3", "U+1ED4", "U+1ED5", "U+1ED6", "U+1ED7", "U+1ED8", "U+1ED9",
   "U+1EDA", "U+1EDB", "U+1EDC", "U+1EDD", "U+1EDE", "U+1EDF", "U+1EE0", "U+1EE1",
   "U+1EE2", "U+1EE3", "U+1EE4", "U+1EE5", "U+1EE6", "U+1EE7", "U+1EE8", "U+1EE9",
   "U+1EEA", "U+1EEB", "U+1EEC", "U+1EED", "U+1EEE", "U+1EEF", "U+1EF0", "U+1EF1",
   "U+1EF2", "U+1EF3", "U+1EF4", "U+1EF5", "U+1EF6", "U+1EF7", "U+1EF8", "U+1EF9",
   "U+1EFA", "U+1EFB", "U+1EFC", "U+1EFD", "U+1EFE", "U+1EFF", "U+1F00", "U+1F01",
   "U+1F02", "U+1F03", "U+1F04", "U+1F05", "U+1F06", "U+1F07", "U+1F08", "U+1F09",
   "U+1F0A", "U+1F0B", "U+1F0C", "U+1F0D", "U+1F0E", "U+1F0F", "U+1F10", "U+1F11",
   "U+1F12", "U+1F13", "U+1F14", "U+1F15", "U+1F18", "U+1F19", "U+1F1A", "U+1F1B",
   "U+1F1C", "U+1F1D", "U+1F20", "U+1F21", "U+1F22", "U+1F23", "U+1F24", "U+1F25",
   "U+1F26", "U+1F27", "U+1F28", "U+1F29", "U+1F2A", "U+1F2B", "U+1F2C", "U+1F2D",
   "U+1F2E", "U+1F2F", "U+1F30", "U+1F31", "U+1F32", "U+1F33", "U+1F34", "U+1F35",
   "U+1F36", "U+1F37", "U+1F38", "U+1F39", "U+1F3A", "U+1F3B", "U+1F3C", "U+1F3D",
   "U+1F3E", "U+1F3F", "U+1F40", "U+1F41", "U+1F42", "U+1F43", "U+1F44", "U+1F45",
   "U+1F48", "U+1F49", "U+1F4A", "U+1F4B", "U+1F4C", "U+1F4D", "U+1F50", "U+1F51",
   "U+1F52", "U+1F53", "U+1F54", "U+1F55", "U+1F56", "U+1F57", "U+1F59", "U+1F5B",
   "U+1F5D", "U+1F5F", "U+1F60", "U+1F61", "U+1F62", "U+1F63", "U+1F64", "U+1F65",
   "U+1F66", "U+1F67", "U+1F68", "U+1F69", "U+1F6A", "U+1F6B", "U+1F6C", "U+1F6D",
   "U+1F6E", "U+1F6F", "U+1F70", "U+1F71", "U+1F72", "U+1F73", "U+1F74", "U+1F75",
   "U+1F76", "U+1F77", "U+1F78", "U+1F79", "U+1F7A", "U+1F7B", "U+1F7C", "U+1F7D",
   "U+1F80", "U+1F81", "U+1F82", "U+1F83", "U+1F84", "U+1F85", "U+1F86", "U+1F87",
   "U+1F88", "U+1F89", "U+1F8A", "U+1F8B", "U+1F8C", "U+1F8D", "U+1F8E", "U+1F8F",
   "U+1F90", "U+1F91", "U+1F92", "U+1F93", "U+1F94", "U+1F95", "U+1F96", "U+1F97",
   "U+1F98", "U+1F99", "U+1F9A", "U+1F9B", "U+1F9C", "U+1F9D", "U+1F9E", "U+1F9F",
   "U+1FA0", "U+1FA1", "U+1FA2", "U+1FA3", "U+1FA4", "U+1FA5", "U+1FA6", "U+1FA7",
   "U+1FA8", "U+1FA9", "U+1FAA", "U+1FAB", "U+1FAC", "U+1FAD", "U+1FAE", "U+1FAF",
   "U+1FB0", "U+1FB1", "U+1FB2", "U+1FB3", "U+1FB4", "U+1FB6", "U+1FB7", "U+1FB8",
   "U+1FB9", "U+1FBA", "U+1FBB", "U+1FBC", "U+1FBE", "U+1FC2", "U+1FC3", "U+1FC4",
   "U+1FC6", "U+1FC7", "U+1FC8", "U+1FC9", "U+1FCA", "U+1FCB", "U+1FCC", "U+1FD0",
   "U+1FD1", "U+1FD2", "U+1FD3", "U+1FD6", "U+1FD7", "U+1FD8", "U+1FD9", "U+1FDA",
   "U+1FDB", "U+1FE0", "U+1FE1", "U+1FE2", "U+1FE3", "U+1FE4", "U+1FE5", "U+1FE6",
   "U+1FE7", "U+1FE8", "U+1FE9", "U+1FEA", "U+1FEB", "U+1FEC", "U+1FF2", "U+1FF3",
   "U+1FF4", "U+1FF6", "U+1FF7", "U+1FF8", "U+1FF9", "U+1FFA", "U+1FFB", "U+1FFC",
   "U+2102", "U+2107", "U+210A", "U+210B", "U+210C", "U+210D", "U+210E", "U+210F",
   "U+2110", "U+2111", "U+2112", "U+2113", "U+2115", "U+2119", "U+211A", "U+211B",
   "U+211C", "U+211D", "U+2124", "U+2126", "U+2128", "U+212A", "U+212B", "U+212C",
   "U+212D", "U+212F", "U+2130", "U+2131", "U+2132", "U+2133", "U+2134", "U+2139",
   "U+213C", "U+213D", "U+213E", "U+213F", "U+2145", "U+2146", "U+2147", "U+2148",
   "U+2149", "U+214E", "U+2160", "U+2161", "U+2162", "U+2163", "U+2164", "U+2165",
   "U+2166", "U+2167", "U+2168", "U+2169", "U+216A", "U+216B", "U+216C", "U+216D",
   "U+216E", "U+216F", "U+2170", "U+2171", "U+2172", "U+2173", "U+2174", "U+2175",
   "U+2176", "U+2177", "U+2178", "U+2179", "U+217A", "U+217B", "U+217C", "U+217D",
   "U+217E", "U+217F", "U+2183", "U+2184", "U+24B6", "U+24B7", "U+24B8", "U+24B9",
   "U+24BA", "U+24BB", "U+24BC", "U+24BD", "U+24BE", "U+24BF", "U+24C0", "U+24C1",
   "U+24C2", "U+24C3", "U+24C4", "U+24C5", "U+24C6", "U+24C7", "U+24C8", "U+24C9",
   "U+24CA", "U+24CB", "U+24CC", "U+24CD", "U+24CE", "U+24CF", "U+24D0", "U+24D1",
   "U+24D2", "U+24D3", "U+24D4", "U+24D5", "U+24D6", "U+24D7", "U+24D8", "U+24D9",
   "U+24DA", "U+24DB", "U+24DC", "U+24DD", "U+24DE", "U+24DF", "U+24E0", "U+24E1",
   "U+24E2", "U+24E3", "U+24E4", "U+24E5", "U+24E6", "U+24E7", "U+24E8", "U+24E9",
   "U+2C00", "U+2C01", "U+2C02", "U+2C03", "U+2C04", "U+2C05", "U+2C06", "U+2C07",
   "U+2C08", "U+2C09", "U+2C0A", "U+2C0B", "U+2C0C", "U+2C0D", "U+2C0E", "U+2C0F",
   "U+2C10", "U+2C11", "U+2C12", "U+2C13", "U+2C14", "U+2C15", "U+2C16", "U+2C17",
   "U+2C18", "U+2C19", "U+2C1A", "U+2C1B", "U+2C1C", "U+2C1D", "U+2C1E", "U+2C1F",
   "U+2C20", "U+2C21", "U+2C22", "U+2C23", "U+2C24", "U+2C25", "U+2C26", "U+2C27",
   "U+2C28", "U+2C29", "U+2C2A", "U+2C2B", "U+2C2C", "U+2C2D", "U+2C2E", "U+2C2F",
   "U+2C30", "U+2C31", "U+2C32", "U+2C33", "U+2C34", "U+2C35", "U+2C36", "U+2C37",
   "U+2C38", "U+2C39", "U+2C3A", "U+2C3B", "U+2C3C", "U+2C3D", "U+2C3E", "U+2C3F",
   "U+2C40", "U+2C41", "U+2C42", "U+2C43", "U+2C44", "U+2C45", "U+2C46", "U+2C47",
   "U+2C48", "U+2C49", "U+2C4A", "U+2C4B", "U+2C4C", "U+2C4D", "U+2C4E", "U+2C4F",
   "U+2C50", "U+2C51", "U+2C52", "U+2C53", "U+2C54", "U+2C55", "U+2C56", "U+2C57",
   "U+2C58", "U+2C59", "U+2C5A", "U+2C5B", "U+2C5C", "U+2C5D", "U+2C5E", "U+2C5F",
   "U+2C60", "U+2C61", "U+2C62", "U+2C63", "U+2C64", "U+2C65", "U+2C66", "U+2C67",
   "U+2C68", "U+2C69", "U+2C6A", "U+2C6B", "U+2C6C", "U+2C6D", "U+2C6E", "U+2C6F",
   "U+2C70", "U+2C71", "U+2C72", "U+2C73", "U+2C74", "U+2C75", "U+2C76", "U+2C77",
   "U+2C78", "U+2C79", "U+2C7A", "U+2C7B", "U+2C7E", "U+2C7F", "U+2C80", "U+2C81",
   "U+2C82", "U+2C83", "U+2C84", "U+2C85", "U+2C86", "U+2C87", "U+2C88", "U+2C89",
   "U+2C8A", "U+2C8B", "U+2C8C", "U+2C8D", "U+2C8E", "U+2C8F", "U+2C90", "U+2C91",
   "U+2C92", "U+2C93", "U+2C94", "U+2C95", "U+2C96", "U+2C97", "U+2C98", "U+2C99",
   "U+2C9A", "U+2C9B", "U+2C9C", "U+2C9D", "U+2C9E", "U+2C9F", "U+2CA0", "U+2CA1",
   "U+2CA2", "U+2CA3", "U+2CA4", "U+2CA5", "U+2CA6", "U+2CA7", "U+2CA8", "U+2CA9",
   "U+2CAA", "U+2CAB", "U+2CAC", "U+2CAD", "U+2CAE", "U+2CAF", "U+2CB0", "U+2CB1",
   "U+2CB2", "U+2CB3", "U+2CB4", "U+2CB5", "U+2CB6", "U+2CB7", "U+2CB8", "U+2CB9",
   "U+2CBA", "U+2CBB", "U+2CBC", "U+2CBD", "U+2CBE", "U+2CBF", "U+2CC0", "U+2CC1",
   "U+2CC2", "U+2CC3", "U+2CC4", "U+2CC5", "U+2CC6", "U+2CC7", "U+2CC8", "U+2CC9",
   "U+2CCA", "U+2CCB", "U+2CCC", "U+2CCD", "U+2CCE", "U+2CCF", "U+2CD0", "U+2CD1",
   "U+2CD2", "U+2CD3", "U+2CD4", "U+2CD5", "U+2CD6", "U+2CD7", "U+2CD8", "U+2CD9",
   "U+2CDA", "U+2CDB", "U+2CDC", "U+2CDD", "U+2CDE", "U+2CDF", "U+2CE0", "U+2CE1",
   "U+2CE2", "U+2CE3", "U+2CE4", "U+2CEB", "U+2CEC", "U+2CED", "U+2CEE", "U+2CF2",
   "U+2CF3", "U+2D00", "U+2D01", "U+2D02", "U+2D03", "U+2D04", "U+2D05", "U+2D06",
   "U+2D07", "U+2D08", "U+2D09", "U+2D0A", "U+2D0B", "U+2D0C", "U+2D0D", "U+2D0E",
   "U+2D0F", "U+2D10", "U+2D11", "U+2D12", "U+2D13", "U+2D14", "U+2D15", "U+2D16",
   "U+2D17", "U+2D18", "U+2D19", "U+2D1A", "U+2D1B", "U+2D1C", "U+2D1D", "U+2D1E",
   "U+2D1F", "U+2D20", "U+2D21", "U+2D22", "U+2D23", "U+2D24", "U+2D25", "U+2D27",
   "U+2D2D", "U+A640", "U+A641", "U+A642", "U+A643", "U+A644", "U+A645", "U+A646",
   "U+A647", "U+A648", "U+A649", "U+A64A", "U+A64B", "U+A64C", "U+A64D", "U+A64E",
   "U+A64F", "U+A650", "U+A651", "U+A652", "U+A653", "U+A654", "U+A655", "U+A656",
   "U+A657", "U+A658", "U+A659", "U+A65A", "U+A65B", "U+A65C", "U+A65D", "U+A65E",
   "U+A65F", "U+A660", "U+A661", "U+A662", "U+A663", "U+A664", "U+A665", "U+A666",
   "U+A667", "U+A668", "U+A669", "U+A66A", "U+A66B", "U+A66C", "U+A66D", "U+A680",
   "U+A681", "U+A682", "U+A683", "U+A684", "U+A685", "U+A686", "U+A687", "U+A688",
   "U+A689", "U+A68A", "U+A68B", "U+A68C", "U+A68D", "U+A68E", "U+A68F", "U+A690",
   "U+A691", "U+A692", "U+A693", "U+A694", "U+A695", "U+A696", "U+A697", "U+A698",
   "U+A699", "U+A69A", "U+A69B", "U+A722", "U+A723", "U+A724", "U+A725", "U+A726",
   "U+A727", "U+A728", "U+A729", "U+A72A", "U+A72B", "U+A72C", "U+A72D", "U+A72E",
   "U+A72F", "U+A730", "U+A731", "U+A732", "U+A733", "U+A734", "U+A735", "U+A736",
   "U+A737", "U+A738", "U+A739", "U+A73A", "U+A73B", "U+A73C", "U+A73D", "U+A73E",
   "U+A73F", "U+A740", "U+A741", "U+A742", "U+A743", "U+A744", "U+A745", "U+A746",
   "U+A747", "U+A748", "U+A749", "U+A74A", "U+A74B", "U+A74C", "U+A74D", "U+A74E",
   "U+A74F", "U+A750", "U+A751", "U+A752", "U+A753", "U+A754", "U+A755", "U+A756",
   "U+A757", "U+A758", "U+A759", "U+A75A", "U+A75B", "U+A75C", "U+A75D", "U+A75E",
   "U+A75F", "U+A760", "U+A761", "U+A762", "U+A763", "U+A764", "U+A765", "U+A766",
   "U+A767", "U+A768", "U+A769", "U+A76A", "U+A76B", "U+A76C", "U+A76D", "U+A76E",
   "U+A76F", "U+A771", "U+A772", "U+A773", "U+A774", "U+A775", "U+A776", "U+A777",
   "U+A778", "U+A779", "U+A77A", "U+A77B", "U+A77C", "U+A77D", "U+A77E", "U+A77F",
   "U+A780", "U+A781", "U+A782", "U+A783", "U+A784", "U+A785", "U+A786", "U+A787",
   "U+A78B", "U+A78C", "U+A78D", "U+A78E", "U+A790", "U+A791", "U+A792", "U+A793",
   "U+A794", "U+A795", "U+A796", "U+A797", "U+A798", "U+A799", "U+A79A", "U+A79B",
   "U+A79C", "U+A79D", "U+A79E", "U+A79F", "U+A7A0", "U+A7A1", "U+A7A2", "U+A7A3",
   "U+A7A4", "U+A7A5", "U+A7A6", "U+A7A7", "U+A7A8", "U+A7A9", "U+A7AA", "U+A7AB",
   "U+A7AC", "U+A7AD", "U+A7AE", "U+A7AF", "U+A7B0", "U+A7B1", "U+A7B2", "U+A7B3",
   "U+A7B4", "U+A7B5", "U+A7B6", "U+A7B7", "U+A7B8", "U+A7B9", "U+A7BA", "U+A7BB",
   "U+A7BC", "U+A7BD", "U+A7BE", "U+A7BF", "U+A7C0", "U+A7C1", "U+A7C2", "U+A7C3",
   "U+A7C4", "U+A7C5", "U+A7C6", "U+A7C7", "U+A7C8", "U+A7C9", "U+A7CA", "U+A7CB",
   "U+A7CC", "U+A7CD", "U+A7CE", "U+A7CF", "U+A7D0", "U+A7D1", "U+A7D2", "U+A7D3",
   "U+A7D4", "U+A7D5", "U+A7D6", "U+A7D7", "U+A7D8", "U+A7D9", "U+A7DA", "U+A7DB",
   "U+A7DC", "U+A7F5", "U+A7F6", "U+A7FA", "U+AB30", "U+AB31", "U+AB32", "U+AB33",
   "U+AB34", "U+AB35", "U+AB36", "U+AB37", "U+AB38", "U+AB39", "U+AB3A", "U+AB3B",
   "U+AB3C", "U+AB3D", "U+AB3E", "U+AB3F", "U+AB40", "U+AB41", "U+AB42", "U+AB43",
   "U+AB44", "U+AB45", "U+AB46", "U+AB47", "U+AB48", "U+AB49", "U+AB4A", "U+AB4B",
   "U+AB4C", "U+AB4D", "U+AB4E", "U+AB4F", "U+AB50", "U+AB51", "U+AB52", "U+AB53",
   "U+AB54", "U+AB55", "U+AB56", "U+AB57", "U+AB58", "U+AB59", "U+AB5A", "U+AB60",
   "U+AB61", "U+AB62", "U+AB63", "U+AB64", "U+AB65", "U+AB66", "U+AB67", "U+AB68",
   "U+AB70", "U+AB71", "U+AB72", "U+AB73", "U+AB74", "U+AB75", "U+AB76", "U+AB77",
   "U+AB78", "U+AB79", "U+AB7A", "U+AB7B", "U+AB7C", "U+AB7D", "U+AB7E", "U+AB7F",
   "U+AB80", "U+AB81", "U+AB82", "U+AB83", "U+AB84", "U+AB85", "U+AB86", "U+AB87",
   "U+AB88", "U+AB89", "U+AB8A", "U+AB8B", "U+AB8C", "U+AB8D", "U+AB8E", "U+AB8F",
   "U+AB90", "U+AB91", "U+AB92", "U+AB93", "U+AB94", "U+AB95", "U+AB96", "U+AB97",
   "U+AB98", "U+AB99", "U+AB9A", "U+AB9B", "U+AB9C", "U+AB9D", "U+AB9E", "U+AB9F",
   "U+ABA0", "U+ABA1", "U+ABA2", "U+ABA3", "U+ABA4", "U+ABA5", "U+ABA6", "U+ABA7",
   "U+ABA8", "U+ABA9", "U+ABAA", "U+ABAB", "U+ABAC", "U+ABAD", "U+ABAE", "U+ABAF",
   "U+ABB0", "U+ABB1", "U+ABB2", "U+ABB3", "U+ABB4", "U+ABB5", "U+ABB6", "U+ABB7",
   "U+ABB8", "U+ABB9", "U+ABBA", "U+ABBB", "U+ABBC", "U+ABBD", "U+ABBE", "U+ABBF",
   "U+FB00", "U+FB01", "U+FB02", "U+FB03", "U+FB04", "U+FB05", "U+FB06", "U+FB13",
   "U+FB14", "U+FB15", "U+FB16", "U+FB17", "U+FF21", "U+FF22", "U+FF23", "U+FF24",
   "U+FF25", "U+FF26", "U+FF27", "U+FF28", "U+FF29", "U+FF2A", "U+FF2B", "U+FF2C",
   "U+FF2D", "U+FF2E", "U+FF2F", "U+FF30", "U+FF31", "U+FF32", "U+FF33", "U+FF34",
   "U+FF35", "U+FF36", "U+FF37", "U+FF38", "U+FF39", "U+FF3A", "U+FF41", "U+FF42",
   "U+FF43", "U+FF44", "U+FF45", "U+FF46", "U+FF47", "U+FF48", "U+FF49", "U+FF4A",
   "U+FF4B", "U+FF4C", "U+FF4D", "U+FF4E", "U+FF4F", "U+FF50", "U+FF51", "U+FF52",
   "U+FF53", "U+FF54", "U+FF55", "U+FF56", "U+FF57", "U+FF58", "U+FF59", "U+FF5A"
  }

\* the same among the surrogate pairs, by lead surrogate
SupplementaryCased ==
  <<
   "U+D801", {"U+DC00", "U+DC01", "U+DC02", "U+DC03", "U+DC04", "U+DC05", "U+DC06",
   "U+DC07", "U+DC08", "U+DC09", "U+DC0A", "U+DC0B", "U+DC0C", "U+DC0D", "U+DC0E",
   "U+DC0F", "U+DC10", "U+DC11", "U+DC12", "U+DC13", "U+DC14", "U+DC15", "U+DC16",
   "U+DC17", "U+DC18", "U+DC19", "U+DC1A", "U+DC1B", "U+DC1C", "U+DC1D", "U+DC1E",
   "U+DC1F", "U+DC20", "U+DC21", "U+DC22", "U+DC23", "U+DC24", "U+DC25", "U+DC26",
   "U+DC27", "U+DC28", "U+DC29", "U+DC2A", "U+DC2B", "U+DC2C", "U+DC2D", "U+DC2E",
   "U+DC2F", "U+DC30", "U+DC31", "U+DC32", "U+DC33", "U+DC34", "U+DC35", "U+DC36",
   "U+DC37", "U+DC38", "U+DC39", "U+DC3A", "U+DC3B", "U+DC3C", "U+DC3D", "U+DC3E",
   "U+DC3F", "U+DC40", "U+DC41", "U+DC42", "U+DC43", "U+DC44", "U+DC45", "U+DC46",
   "U+DC47", "U+DC48", "U+DC49", "U+DC4A", "U+DC4B", "U+DC4C", "U+DC4D", "U+DC4E",
   "U+DC4F", "U+DCB0", "U+DCB1", "U+DCB2", "U+DCB3", "U+DCB4", "U+DCB5", "U+DCB6",
   "U+DCB7", "U+DCB8", "U+DCB9", "U+DCBA", "U+DCBB", "U+DCBC", "U+DCBD", "U+DCBE",
   "U+DCBF", "U+DCC0", "U+DCC1", "U+DCC2", "U+DCC3", "U+DCC4", "U+DCC5", "U+DCC6",
   "U+DCC7", "U+DCC8", "U+DCC9", "U+DCCA", "U+DCCB", "U+DCCC", "U+DCCD", "U+DCCE",
   "U+DCCF", "U+DCD0", "U+DCD1", "U+DCD2", "U+DCD3", "U+DCD8", "U+DCD9", "U+DCDA",
   "U+DCDB", "U+DCDC", "U+DCDD", "U+DCDE", "U+DCDF", "U+DCE0", "U+DCE1", "U+DCE2",
   "U+DCE3", "U+DCE4", "U+DCE5", "U+DCE6", "U+DCE7", "U+DCE8", "U+DCE9", "U+DCEA",
   "U+DCEB", "U+DCEC", "U+DCED", "U+DCEE", "U+DCEF", "U+DCF0", "U+DCF1", "U+DCF2",
   "U+DCF3", "U+DCF4", "U+DCF5", "U+DCF6", "U+DCF7", "U+DCF8", "U+DCF9", "U+DCFA",
   "U+DCFB", "U+DD70", "U+DD71", "U+DD72", "U+DD73", "U+DD74", "U+DD75", "U+DD76",
   "U+DD77", "U+DD78", "U+DD79", "U+DD7A", "U+DD7C", "U+DD7D", "U+DD7E", "U+DD7F",
   "U+DD80", "U+DD81", "U+DD82", "U+DD83", "U+DD84", "U+DD85", "U+DD86", "U+DD87",
   "U+DD88", "U+DD89", "U+DD8A", "U+DD8C", "U+DD8D", "U+DD8E", "U+DD8F", "U+DD90",
   "U+DD91", "U+DD92", "U+DD94", "U+DD95", "U+DD97", "U+DD98", "U+DD99", "U+DD9A",
   "U+DD9B", "U+DD9C", "U+DD9D", "U+DD9E", "U+DD9F", "U+DDA0", "U+DDA1", "U+DDA3",
   "U+DDA4", "U+DDA5", "U+DDA6", "U+DDA7", "U+DDA8", "U+DDA9", "U+DDAA", "U+DDAB",
   "U+DDAC", "U+DDAD", "U+DDAE", "U+DDAF", "U+DDB0", "U+DDB1", "U+DDB3", "U+DDB4",
   "U+DDB5", "U+DDB6", "U+DDB7", "U+DDB8", "U+DDB9", "U+DDBB", "U+DDBC"},
   "U+D803", {"U+DC80", "U+DC81", "U+DC82", "U+DC83", "U+DC84", "U+DC85", "U+DC86",
   "U+DC87", "U+DC88", "U+DC89", "U+DC8A", "U+DC8B", "U+DC8C", "U+DC8D", "U+DC8E",
   "U+DC8F", "U+DC90", "U+DC91", "U+DC92", "U+DC93", "U+DC94", "U+DC95", "U+DC96",
   "U+DC97", "U+DC98", "U+DC99", "U+DC9A", "U+DC9B", "U+DC9C", "U+DC9D", "U+DC9E",
   "U+DC9F", "U+DCA0", "U+DCA1", "U+DCA2", "U+DCA3", "U+DCA4", "U+DCA5", "U+DCA6",
   "U+DCA7", "U+DCA8", "U+DCA9", "U+DCAA", "U+DCAB", "U+DCAC", "U+DCAD", "U+DCAE",
   "U+DCAF", "U+DCB0", "U+DCB1", "U+DCB2", "U+DCC0", "U+DCC1", "U+DCC2", "U+DCC3",
   "U+DCC4", "U+DCC5", "U+DCC6", "U+DCC7", "U+DCC8", "U+DCC9", "U+DCCA", "U+DCCB",
   "U+DCCC", "U+DCCD", "U+DCCE", "U+DCCF", "U+DCD0", "U+DCD1", "U+DCD2", "U+DCD3",
   "U+DCD4", "U+DCD5", "U+DCD6", "U+DCD7", "U+DCD8", "U+DCD9", "U+DCDA", "U+DCDB",
   "U+DCDC", "U+DCDD", "U+DCDE", "U+DCDF", "U+DCE0", "U+DCE1", "U+DCE2", "U+DCE3",
   "U+DCE4", "U+DCE5", "U+DCE6", "U+DCE7", "U+DCE8", "U+DCE9", "U+DCEA", "U+DCEB",
   "U+DCEC", "U+DCED", "U+DCEE", "U+DCEF", "U+DCF0", "U+DCF1", "U+DCF2", "U+DD50",
   "U+DD51", "U+DD52", "U+DD53", "U+DD54", "U+DD55", "U+DD56", "U+DD57", "U+DD58",
   "U+DD59", "U+DD5A", "U+DD5B", "U+DD5C", "U+DD5D", "U+DD5E", "U+DD5F", "U+DD60",
   "U+DD61", "U+DD62", "U+DD63", "U+DD64", "U+DD65", "U+DD70", "U+DD71", "U+DD72",
   "U+DD73", "U+DD74", "U+DD75", "U+DD76", "U+DD77", "U+DD78", "U+DD79", "U+DD7A",
   "U+DD7B", "U+DD7C", "U+DD7D", "U+DD7E", "U+DD7F", "U+DD80", "U+DD81", "U+DD82",
   "U+DD83", "U+DD84", "U+DD85"},
   "U+D806", {"U+DCA0", "U+DCA1", "U+DCA2", "U+DCA3", "U+DCA4", "U+DCA5", "U+DCA6",
   "U+DCA7", "U+DCA8", "U+DCA9", "U+DCAA", "U+DCAB", "U+DCAC", "U+DCAD", "U+DCAE",
   "U+DCAF", "U+DCB0", "U+DCB1", "U+DCB2", "U+DCB3", "U+DCB4", "U+DCB5", "U+DCB6",
   "U+DCB7", "U+DCB8", "U+DCB9", "U+DCBA", "U+DCBB", "U+DCBC", "U+DCBD", "U+DCBE",
   "U+DCBF", "U+DCC0", "U+DCC1", "U+DCC2", "U+DCC3", "U+DCC4", "U+DCC5", "U+DCC6",
   "U+DCC7", "U+DCC8", "U+DCC9", "U+DCCA", "U+DCCB", "U+DCCC", "U+DCCD", "U+DCCE",
   "U+DCCF", "U+DCD0", "U+DCD1", "U+DCD2", "U+DCD3", "U+DCD4", "U+DCD5", "U+DCD6",
   "U+DCD7", "U+DCD8", "U+DCD9", "U+DCDA", "U+DCDB", "U+DCDC", "U+DCDD", "U+DCDE",
   "U+DCDF"},
   "U+D81B", {"U+DE40", "U+DE41", "U+DE42", "U+DE43", "U+DE44", "U+DE45", "U+DE46",
   "U+DE47", "U+DE48", "U+DE49", "U+DE4A", "U+DE4B", "U+DE4C", "U+DE4D", "U+DE4E",
   "U+DE4F", "U+DE50", "U+DE51", "U+DE52", "U+DE53", "U+DE54", "U+DE55", "U+DE56",
   "U+DE57", "U+DE58", "U+DE59", "U+DE5A", "U+DE5B", "U+DE5C", "U+DE5D", "U+DE5E",
   "U+DE5F", "U+DE60", "U+DE61", "U+DE62", "U+DE63", "U+DE64", "U+DE65", "U+DE66",
   "U+DE67", "U+DE68", "U+DE69", "U+DE6A", "U+DE6B", "U+DE6C", "U+DE6D", "U+DE6E",
   "U+DE6F", "U+DE70", "U+DE71", "U+DE72", "U+DE73", "U+DE74", "U+DE75", "U+DE76",
   "U+DE77", "U+DE78", "U+DE79", "U+DE7A", "U+DE7B", "U+DE7C", "U+DE7D", "U+DE7E",
   "U+DE7F", "U+DEA0", "U+DEA1", "U+DEA2", "U+DEA3", "U+DEA4", "U+DEA5", "U+DEA6",
   "U+DEA7", "U+DEA8", "U+DEA9", "U+DEAA", "U+DEAB", "U+DEAC", "U+DEAD", "U+DEAE",
   "U+DEAF", "U+DEB0", "U+DEB1", "U+DEB2", "U+DEB3", "U+DEB4", "U+DEB5", "U+DEB6",
   "U+DEB7", "U+DEB8", "U+DEBB", "U+DEBC", "U+DEBD", "U+DEBE", "U+DEBF", "U+DEC0",
   "U+DEC1", "U+DEC2", "U+DEC3", "U+DEC4", "U+DEC5", "U+DEC6", "U+DEC7", "U+DEC8",
   "U+DEC9", "U+DECA", "U+DECB", "U+DECC", "U+DECD", "U+DECE", "U+DECF", "U+DED0",
   "U+DED1", "U+DED2", "U+DED3"},
   "U+D835", {"U+DC00", "U+DC01", "U+DC02", "U+DC03", "U+DC04", "U+DC05", "U+DC06",
   "U+DC07", "U+DC08", "U+DC09", "U+DC0A", "U+DC0B", "U+DC0C", "U+DC0D", "U+DC0E",
   "U+DC0F", "U+DC10", "U+DC11", "U+DC12", "U+DC13", "U+DC14", "U+DC15", "U+DC16",
   "U+DC17", "U+DC18", "U+DC19", "U+DC1A", "U+DC1B", "U+DC1C", "U+DC1D", "U+DC1E",
   "U+DC1F", "U+DC20", "U+DC21", "U+DC22", "U+DC23", "U+DC24", "U+DC25", "U+DC26",
   "U+DC27", "U+DC28", "U+DC29", "U+DC2A", "U+DC2B", "U+DC2C", "U+DC2D", "U+DC2E",
   "U+DC2F", "U+DC30", "U+DC31", "U+DC32", "U+DC33", "U+DC34", "U+DC35", "U+DC36",
   "U+DC37", "U+DC38", "U+DC39", "U+DC3A", "U+DC3B", "U+DC3C", "U+DC3D", "U+DC3E",
   "U+DC3F", "U+DC40", "U+DC41", "U+DC42", "U+DC43", "U+DC44", "U+DC45", "U+DC46",
   "U+DC47", "U+DC48", "U+DC49", "U+DC4A", "U+DC4B", "U+DC4C", "U+DC4D", "U+DC4E",
   "U+DC4F", "U+DC50", "U+DC51", "U+DC52", "U+DC53", "U+DC54", "U+DC56", "U+DC57",
   "U+DC58", "U+DC59", "U+DC5A", "U+DC5B", "U+DC5C", "U+DC5D", "U+DC5E", "U+DC5F",
   "U+DC60", "U+DC61", "U+DC62", "U+DC63", "U+DC64", "U+DC65", "U+DC66", "U+DC67",
   "U+DC68", "U+DC69", "U+DC6A", "U+DC6B", "U+DC6C", "U+DC6D", "U+DC6E", "U+DC6F",
   "U+DC70", "U+DC71", "U+DC72", "U+DC73", "U+DC74", "U+DC75", "U+DC76", "U+DC77",
   "U+DC78", "U+DC79", "U+DC7A", "U+DC7B", "U+DC7C", "U+DC7D", "U+DC7E", "U+DC7F",
   "U+DC80", "U+DC81", "U+DC82", "U+DC83", "U+DC84", "U+DC85", "U+DC86", "U+DC87",
   "U+DC88", "U+DC89", "U+DC8A", "U+DC8B", "U+DC8C", "U+DC8D", "U+DC8E", "U+DC8F",
   "U+DC90", "U+DC91", "U+DC92", "U+DC93", "U+DC94", "U+DC95", "U+DC96", "U+DC97",
   "U+DC98", "U+DC99", "U+DC9A", "U+DC9B", "U+DC9C", "U+DC9E", "U+DC9F", "U+DCA2",
   "U+DCA5", "U+DCA6", "U+DCA9", "U+DCAA", "U+DCAB", "U+DCAC", "U+DCAE", "U+DCAF",
   "U+DCB0", "U+DCB1", "U+DCB2", "U+DCB3", "U+DCB4", "U+DCB5", "U+DCB6", "U+DCB7",
   "U+DCB8", "U+DCB9", "U+DCBB", "U+DCBD", "U+DCBE", "U+DCBF", "U+DCC0", "U+DCC1",
   "U+DCC2", "U+DCC3", "U+DCC5", "U+DCC6", "U+DCC7", "U+DCC8", "U+DCC9", "U+DCCA",
   "U+DCCB", "U+DCCC", "U+DCCD", "U+DCCE", "U+DCCF", "U+DCD0", "U+DCD1", "U+DCD2",
   "U+DCD3", "U+DCD4", "U+DCD5", "U+DCD6", "U+DCD7", "U+DCD8", "U+DCD9", "U+DCDA",
   "U+DCDB", "U+DCDC", "U+DCDD", "U+DCDE", "U+DCDF", "U+DCE0", "U+DCE1", "U+DCE2",
   "U+DCE3", "U+DCE4", "U+DCE5", "U+DCE6", "U+DCE7", "U+DCE8", "U+DCE9", "U+DCEA",
   "U+DCEB", "U+DCEC", "U+DCED", "U+DCEE", "U+DCEF", "U+DCF0", "U+DCF1", "U+DCF2",
   "U+DCF3", "U+DCF4", "U+DCF5", "U+DCF6", "U+DCF7", "U+DCF8", "U+DCF9", "U+DCFA",
   "U+DCFB", "U+DCFC", "U+DCFD", "U+DCFE", "U+DCFF", "U+DD00", "U+DD01", "U+DD02",
   "U+DD03", "U+DD04", "U+DD05", "U+DD07", "U+DD08", "U+DD09", "U+DD0A", "U+DD0D",
   "U+DD0E", "U+DD0F", "U+DD10", "U+DD11", "U+DD12", "U+DD13", "U+DD14", "U+DD16",
   "U+DD17", "U+DD18", "U+DD19", "U+DD1A", "U+DD1B", "U+DD1C", "U+DD1E", "U+DD1F",
   "U+DD20", "U+DD21", "U+DD22", "U+DD23", "U+DD24", "U+DD25", "U+DD26", "U+DD27",
   "U+DD28", "U+DD29", "U+DD2A", "U+DD2B", "U+DD2C", "U+DD2D", "U+DD2E", "U+DD2F",
   "U+DD30", "U+DD31", "U+DD32", "U+DD33", "U+DD34", "U+DD35", "U+DD36", "U+DD37",
   "U+DD38", "U+DD39", "U+DD3B", "U+DD3C", "U+DD3D", "U+DD3E", "U+DD40", "U+DD41",
   "U+DD42", "U+DD43", "U+DD44", "U+DD46", "U+DD4A", "U+DD4B", "U+DD4C", "U+DD4D",
   "U+DD4E", "U+DD4F", "U+DD50", "U+DD52", "U+DD53", "U+DD54", "U+DD55", "U+DD56",
   "U+DD57", "U+DD58", "U+DD59", "U+DD5A", "U+DD5B", "U+DD5C", "U+DD5D", "U+DD5E",
   "U+DD5F", "U+DD60", "U+DD61", "U+DD62", "U+DD63", "U+DD64", "U+DD65", "U+DD66",
   "U+DD67", "U+DD68", "U+DD69", "U+DD6A", "U+DD6B", "U+DD6C", "U+DD6D", "U+DD6E",
   "U+DD6F", "U+DD70", "U+DD71", "U+DD72", "U+DD73", "U+DD74", "U+DD75", "U+DD76",
   "U+DD77", "U+DD78", "U+DD79", "U+DD7A", "U+DD7B", "U+DD7C", "U+DD7D", "U+DD7E",
   "U+DD7F", "U+DD80", "U+DD81", "U+DD82", "U+DD83", "U+DD84", "U+DD85", "U+DD86",
   "U+DD87", "U+DD88", "U+DD89", "U+DD8A", "U+DD8B", "U+DD8C", "U+DD8D", "U+DD8E",
   "U+DD8F", "U+DD90", "U+DD91", "U+DD92", "U+DD93", "U+DD94", "U+DD95", "U+DD96",
   "U+DD97", "U+DD98", "U+DD99", "U+DD9A", "U+DD9B", "U+DD9C", "U+DD9D", "U+DD9E",
   "U+DD9F", "U+DDA0", "U+DDA1", "U+DDA2", "U+DDA3", "U+DDA4", "U+DDA5", "U+DDA6",
   "U+DDA7", "U+DDA8", "U+DDA9", "U+DDAA", "U+DDAB", "U+DDAC", "U+DDAD", "U+DDAE",
   "U+DDAF", "U+DDB0", "U+DDB1", "U+DDB2", "U+DDB3", "U+DDB4", "U+DDB5", "U+DDB6",
   "U+DDB7", "U+DDB8", "U+DDB9", "U+DDBA", "U+DDBB", "U+DDBC", "U+DDBD", "U+DDBE",
   "U+DDBF", "U+DDC0", "U+DDC1", "U+DDC2", "U+DDC3", "U+DDC4", "U+DDC5", "U+DDC6",
   "U+DDC7", "U+DDC8", "U+DDC9", "U+DDCA", "U+DDCB", "U+DDCC", "U+DDCD", "U+DDCE",
   "U+DDCF", "U+DDD0", "U+DDD1", "U+DDD2", "U+DDD3", "U+DDD4", "U+DDD5", "U+DDD6",
   "U+DDD7", "U+DDD8", "U+DDD9", "U+DDDA", "U+DDDB", "U+DDDC", "U+DDDD", "U+DDDE",
   "U+DDDF", "U+DDE0", "U+DDE1", "U+DDE2", "U+DDE3", "U+DDE4", "U+DDE5", "U+DDE6",
   "U+DDE7", "U+DDE8", "U+DDE9", "U+DDEA", "U+DDEB", "U+DDEC", "U+DDED", "U+DDEE",
   "U+DDEF", "U+DDF0", "U+DDF1", "U+DDF2", "U+DDF3", "U+DDF4", "U+DDF5", "U+DDF6",
   "U+DDF7", "U+DDF8", "U+DDF9", "U+DDFA", "U+DDFB", "U+DDFC", "U+DDFD", "U+DDFE",
   "U+DDFF", "U+DE00", "U+DE01", "U+DE02", "U+DE03", "U+DE04", "U+DE05", "U+DE06",
   "U+DE07", "U+DE08", "U+DE09", "U+DE0A", "U+DE0B", "U+DE0C", "U+DE0D", "U+DE0E",
   "U+DE0F", "U+DE10", "U+DE11", "U+DE12", "U+DE13", "U+DE14", "U+DE15", "U+DE16",
   "U+DE17", "U+DE18", "U+DE19", "U+DE1A", "U+DE1B", "U+DE1C", "U+DE1D", "U+DE1E",
   "U+DE1F", "U+DE20", "U+DE21", "U+DE22", "U+DE23", "U+DE24", "U+DE25", "U+DE26",
   "U+DE27", "U+DE28", "U+DE29", "U+DE2A", "U+DE2B", "U+DE2C", "U+DE2D", "U+DE2E",
   "U+DE2F", "U+DE30", "U+DE31", "U+DE32", "U+DE33", "U+DE34", "U+DE35", "U+DE36",
   "U+DE37", "U+DE38", "U+DE39", "U+DE3A", "U+DE3B", "U+DE3C", "U+DE3D", "U+DE3E",
   "U+DE3F", "U+DE40", "U+DE41", "U+DE42", "U+DE43", "U+DE44", "U+DE45", "U+DE46",
   "U+DE47", "U+DE48", "U+DE49", "U+DE4A", "U+DE4B", "U+DE4C", "U+DE4D", "U+DE4E",
   "U+DE4F", "U+DE50", "U+DE51", "U+DE52", "U+DE53", "U+DE54", "U+DE55", "U+DE56",
   "U+DE57", "U+DE58", "U+DE59", "U+DE5A", "U+DE5B", "U+DE5C", "U+DE5D", "U+DE5E",
   "U+DE5F", "U+DE60", "U+DE61", "U+DE62", "U+DE63", "U+DE64", "U+DE65", "U+DE66",
   "U+DE67", "U+DE68", "U+DE69", "U+DE6A", "U+DE6B", "U+DE6C", "U+DE6D", "U+DE6E",
   "U+DE6F", "U+DE70", "U+DE71", "U+DE72", "U+DE73", "U+DE74", "U+DE75", "U+DE76",
   "U+DE77", "U+DE78", "U+DE79", "U+DE7A", "U+DE7B", "U+DE7C", "U+DE7D", "U+DE7E",
   "U+DE7F", "U+DE80", "U+DE81", "U+DE82", "U+DE83", "U+DE84", "U+DE85", "U+DE86",
   "U+DE87", "U+DE88", "U+DE89", "U+DE8A", "U+DE8B", "U+DE8C", "U+DE8D", "U+DE8E",
   "U+DE8F", "U+DE90", "U+DE91", "U+DE92", "U+DE93", "U+DE94", "U+DE95", "U+DE96",
   "U+DE97", "U+DE98", "U+DE99", "U+DE9A", "U+DE9B", "U+DE9C", "U+DE9D", "U+DE9E",
   "U+DE9F", "U+DEA0", "U+DEA1", "U+DEA2", "U+DEA3", "U+DEA4", "U+DEA5", "U+DEA8",
   "U+DEA9", "U+DEAA", "U+DEAB", "U+DEAC", "U+DEAD", "U+DEAE", "U+DEAF", "U+DEB0",
   "U+DEB1", "U+DEB2", "U+DEB3", "U+DEB4", "U+DEB5", "U+DEB6", "U+DEB7", "U+DEB8",
   "U+DEB9", "U+DEBA", "U+DEBB", "U+DEBC", "U+DEBD", "U+DEBE", "U+DEBF", "U+DEC0",
   "U+DEC2", "U+DEC3", "U+DEC4", "U+DEC5", "U+DEC6", "U+DEC7", "U+DEC8", "U+DEC9",
   "U+DECA", "U+DECB", "U+DECC", "U+DECD", "U+DECE", "U+DECF", "U+DED0", "U+DED1",
   "U+DED2", "U+DED3", "U+DED4", "U+DED5", "U+DED6", "U+DED7", "U+DED8", "U+DED9",
   "U+DEDA", "U+DEDC", "U+DEDD", "U+DEDE", "U+DEDF", "U+DEE0", "U+DEE1", "U+DEE2",
   "U+DEE3", "U+DEE4", "U+DEE5", "U+DEE6", "U+DEE7", "U+DEE8", "U+DEE9", "U+DEEA",
   "U+DEEB", "U+DEEC", "U+DEED", "U+DEEE", "U+DEEF", "U+DEF0", "U+DEF1", "U+DEF2",
   "U+DEF3", "U+DEF4", "U+DEF5", "U+DEF6", "U+DEF7", "U+DEF8", "U+DEF9", "U+DEFA",
   "U+DEFC", "U+DEFD", "U+DEFE", "U+DEFF", "U+DF00", "U+DF01", "U+DF02", "U+DF03",
   "U+DF04", "U+DF05", "U+DF06", "U+DF07", "U+DF08", "U+DF09", "U+DF0A", "U+DF0B",
   "U+DF0C", "U+DF0D", "U+DF0E", "U+DF0F", "U+DF10", "U+DF11", "U+DF12", "U+DF13",
   "U+DF14", "U+DF16", "U+DF17", "U+DF18", "U+DF19", "U+DF1A", "U+DF1B", "U+DF1C",
   "U+DF1D", "U+DF1E", "U+DF1F", "U+DF20", "U+DF21", "U+DF22", "U+DF23", "U+DF24",
   "U+DF25", "U+DF26", "U+DF27", "U+DF28", "U+DF29", "U+DF2A", "U+DF2B", "U+DF2C",
   "U+DF2D", "U+DF2E", "U+DF2F", "U+DF30", "U+DF31", "U+DF32", "U+DF33", "U+DF34",
   "U+DF36", "U+DF37", "U+DF38", "U+DF39", "U+DF3A", "U+DF3B", "U+DF3C", "U+DF3D",
   "U+DF3E", "U+DF3F", "U+DF40", "U+DF41", "U+DF42", "U+DF43", "U+DF44", "U+DF45",
   "U+DF46", "U+DF47", "U+DF48", "U+DF49", "U+DF4A", "U+DF4B", "U+DF4C", "U+DF4D",
   "U+DF4E", "U+DF50", "U+DF51", "U+DF52", "U+DF53", "U+DF54", "U+DF55", "U+DF56",
   "U+DF57", "U+DF58", "U+DF59", "U+DF5A", "U+DF5B", "U+DF5C", "U+DF5D", "U+DF5E",
   "U+DF5F", "U+DF60", "U+DF61", "U+DF62", "U+DF63", "U+DF64", "U+DF65", "U+DF66",
   "U+DF67", "U+DF68", "U+DF69", "U+DF6A", "U+DF6B", "U+DF6C", "U+DF6D", "U+DF6E",
   "U+DF70", "U+DF71", "U+DF72", "U+DF73", "U+DF74", "U+DF75", "U+DF76", "U+DF77",
   "U+DF78", "U+DF79", "U+DF7A", "U+DF7B", "U+DF7C", "U+DF7D", "U+DF7E", "U+DF7F",
   "U+DF80", "U+DF81", "U+DF82", "U+DF83", "U+DF84", "U+DF85", "U+DF86", "U+DF87",
   "U+DF88", "U+DF8A", "U+DF8B", "U+DF8C", "U+DF8D", "U+DF8E", "U+DF8F", "U+DF90",
   "U+DF91", "U+DF92", "U+DF93", "U+DF94", "U+DF95", "U+DF96", "U+DF97", "U+DF98",
   "U+DF99", "U+DF9A", "U+DF9B", "U+DF9C", "U+DF9D", "U+DF9E", "U+DF9F", "U+DFA0",
   "U+DFA1", "U+DFA2", "U+DFA3", "U+DFA4", "U+DFA5", "U+DFA6", "U+DFA7", "U+DFA8",
   "U+DFAA", "U+DFAB", "U+DFAC", "U+DFAD", "U+DFAE", "U+DFAF", "U+DFB0", "U+DFB1",
   "U+DFB2", "U+DFB3", "U+DFB4", "U+DFB5", "U+DFB6", "U+DFB7", "U+DFB8", "U+DFB9",
   "U+DFBA", "U+DFBB", "U+DFBC", "U+DFBD", "U+DFBE", "U+DFBF", "U+DFC0", "U+DFC1",
   "U+DFC2", "U+DFC4", "U+DFC5", "U+DFC6", "U+DFC7", "U+DFC8", "U+DFC9", "U+DFCA",
   "U+DFCB"},
   "U+D837", {"U+DF00", "U+DF01", "U+DF02", "U+DF03", "U+DF04", "U+DF05", "U+DF06",
   "U+DF07", "U+DF08", "U+DF09", "U+DF0B", "U+DF0C", "U+DF0D", "U+DF0E", "U+DF0F",
   "U+DF10", "U+DF11", "U+DF12", "U+DF13", "U+DF14", "U+DF15", "U+DF16", "U+DF17",
   "U+DF18", "U+DF19", "U+DF1A", "U+DF1B", "U+DF1C", "U+DF1D", "U+DF1E", "U+DF25",
   "U+DF26", "U+DF27", "U+DF28", "U+DF29", "U+DF2A"},
   "U+D83A", {"U+DD00", "U+DD01", "U+DD02", "U+DD03", "U+DD04", "U+DD05", "U+DD06",
   "U+DD07", "U+DD08", "U+DD09", "U+DD0A", "U+DD0B", "U+DD0C", "U+DD0D", "U+DD0E",
   "U+DD0F", "U+DD10", "U+DD11", "U+DD12", "U+DD13", "U+DD14", "U+DD15", "U+DD16",
   "U+DD17", "U+DD18", "U+DD19", "U+DD1A", "U+DD1B", "U+DD1C", "U+DD1D", "U+DD1E",
   "U+DD1F", "U+DD20", "U+DD21", "U+DD22", "U+DD23", "U+DD24", "U+DD25", "U+DD26",
   "U+DD27", "U+DD28", "U+DD29", "U+DD2A", "U+DD2B", "U+DD2C", "U+DD2D", "U+DD2E",
   "U+DD2F", "U+DD30", "U+DD31", "U+DD32", "U+DD33", "U+DD34", "U+DD35", "U+DD36",
   "U+DD37", "U+DD38", "U+DD39", "U+DD3A", "U+DD3B", "U+DD3C", "U+DD3D", "U+DD3E",
   "U+DD3F", "U+DD40", "U+DD41", "U+DD42", "U+DD43"},
   "U+D83C", {"U+DD30", "U+DD31", "U+DD32", "U+DD33", "U+DD34", "U+DD35", "U+DD36",
   "U+DD37", "U+DD38", "U+DD39", "U+DD3A", "U+DD3B", "U+DD3C", "U+DD3D", "U+DD3E",
   "U+DD3F", "U+DD40", "U+DD41", "U+DD42", "U+DD43", "U+DD44", "U+DD45", "U+DD46",
   "U+DD47", "U+DD48", "U+DD49", "U+DD50", "U+DD51", "U+DD52", "U+DD53", "U+DD54",
   "U+DD55", "U+DD56", "U+DD57", "U+DD58", "U+DD59", "U+DD5A", "U+DD5B", "U+DD5C",
   "U+DD5D", "U+DD5E", "U+DD5F", "U+DD60", "U+DD61", "U+DD62", "U+DD63", "U+DD64",
   "U+DD65", "U+DD66", "U+DD67", "U+DD68", "U+DD69", "U+DD70", "U+DD71", "U+DD72",
   "U+DD73", "U+DD74", "U+DD75", "U+DD76", "U+DD77", "U+DD78", "U+DD79", "U+DD7A",
   "U+DD7B", "U+DD7C", "U+DD7D", "U+DD7E", "U+DD7F", "U+DD80", "U+DD81", "U+DD82",
   "U+DD83", "U+DD84", "U+DD85", "U+DD86", "U+DD87", "U+DD88", "U+DD89"}
  >>

\* the function that takes every odd element of the sequence m to the next one
PairsToFunction(m) ==
  [ch \in {m[2 * k - 1] : k \in 1..(Len(m) \div 2)} |->
     m[1 + (CHOOSE k \in 1..Len(m) : k % 2 = 1 /\ m[k] = ch)]]

\* the case data String.prototype.toLowerCase works with
UnicodeDataTable ==
  [LowerCase |-> PairsToFunction(LowerCaseMapping),
   SupplementaryLowerCase |-> SupplementaryMapping,
   CaseIgnorable |-> CaseIgnorable,
   SupplementaryCaseIgnorable |-> SupplementaryCaseIgnorable,
   Cased |-> Cased,
   SupplementaryCased |-> SupplementaryCased]
UnicodeData(name) == Eval("UnicodeData", <<name>>)

\* the simple lower-case mapping of one code unit
LowerCase(ch) ==
  LET image == UnicodeData("LowerCase")
  IN  IF ch \in DOMAIN image THEN image[ch] ELSE ch

\* the trail surrogate of the lower-case mapping of the pair lead, trail
SupplementaryLowerCase(lead, trail) ==
  LET table == UnicodeData("SupplementaryLowerCase")
      at == {k \in 1..(Len(table) \div 2) : table[2 * k - 1] = lead}
      image == IF at = {} THEN << >>
               ELSE PairsToFunction(table[2 * (CHOOSE k \in at : TRUE)])
  IN  IF trail \in DOMAIN image THEN image[trail] ELSE trail

\* whether the pair lead, trail is in the set that the table holds for lead
InSupplementary(table, lead, trail) ==
  \E k \in 1..(Len(table) \div 2) : table[2 * k - 1] = lead /\ trail \in table[2 * k]

\* whether, going from place j of str in the direction dir, a cased letter comes
\* after any number of case-ignorable characters
RECURSIVE CasedToward(_, _, _)
CasedToward(str, j, dir) ==
  LET lead == IF dir < 0 THEN j - 1 ELSE j
      paired == lead >= 1 /\ lead < Len(str)
  IN  IF j < 1 \/ j > Len(str) THEN FALSE
      ELSE IF paired /\ InSupplementary(UnicodeData("SupplementaryCaseIgnorable"),
                                        str[lead], str[lead + 1])
      THEN CasedToward(str, j + 2 * dir, dir)
      ELSE IF paired /\ InSupplementary(UnicodeData("SupplementaryCased"),
                                        str[lead], str[lead + 1])
      THEN TRUE
      ELSE IF str[j] \in UnicodeData("CaseIgnorable")
      THEN CasedToward(str, j + dir, dir)
      ELSE str[j] \in UnicodeData("Cased")

\* the code units that toLowerCase puts in the place of code unit i of str: the
\* capital I with dot above becomes two, the capital sigma that ends a word
\* becomes the final sigma, the trail surrogate of a pair follows the mapping of
\* its code point
LowerCaseAt(str, i) ==
  IF str[i] = "U+0130" THEN <<"i", "U+0307">>
  ELSE IF str[i] = "U+03A3" /\ CasedToward(str, i - 1, -1) /\ ~CasedToward(str, i + 1, 1)
  THEN <<"U+03C2">>
  ELSE IF i > 1 /\ SupplementaryLowerCase(str[i - 1], str[i]) # str[i]
  THEN <<SupplementaryLowerCase(str[i - 1], str[i])>>
  ELSE <<LowerCase(str[i])>>

\* String.prototype.toLowerCase
RECURSIVE LowerCaseFrom(_, _)
LowerCaseFrom(str, i) ==
  IF i > Len(str) THEN << >> ELSE LowerCaseAt(str, i) \o LowerCaseFrom(str, i + 1)
toLowerCase(str) == Eval("toLowerCase", <<str>>)

\* the WhiteSpace and LineTerminator code points; one that has no escape in a
\* string stands in the model's strings as the character named by its number
WhiteSpace ==
  {" ", "\t", "\n", "\f", "\r", "U+000B", "U+00A0", "U+1680", "U+2000", "U+2001",
   "U+2002", "U+2003", "U+2004", "U+2005", "U+2006", "U+2007", "U+2008", "U+2009",
   "U+200A", "U+2028", "U+2029", "U+202F", "U+205F", "U+3000", "U+FEFF"}

\* String.prototype.trim
trim(str) == Eval("trim", <<str>>)

\* lower-case material name -> key of SELLMEIER
MATERIAL_TO_SELLMEIER ==
  (<<"n", "-", "b", "k", "7">> :> "N-BK7") @@ (<<"b", "k", "7">> :> "N-BK7")
  @@ (<<"n", "b", "k", "7">> :> "N-BK7")
  @@ (<<"n", "-", "s", "f", "1", "1">> :> "N-SF11") @@ (<<"s", "f", "1", "1">> :> "N-SF11")
  @@ (<<"f", "u", "s", "e", "d", " ", "s", "i", "l", "i", "c", "a">> :> "Fused Silica")
  @@ (<<"f", "u", "s", "e", "d", "-", "s", "i", "l", "i", "c", "a">> :> "Fused Silica")
  @@ (<<"s", "i", "l", "i", "c", "a">> :> "Fused Silica")
  @@ (<<"f", "2">> :> "F2") @@ (<<"n", "-", "s", "f", "5">> :> "N-SF5")
  @@ (<<"n", "-", "s", "f", "1", "0">> :> "N-SF10")
  @@ (<<"n", "-", "b", "a", "f", "1", "0">> :> "N-BAF10")
  @@ (<<"b", "a", "f", "1", "0">> :> "N-BAF10")
  @@ (<<"n", "-", "l", "a", "k", "9">> :> "N-LAK9") @@ (<<"l", "a", "k", "9">> :> "N-LAK9")

\* lower-case material name -> nominal refractive index of the editor
MATERIAL_INDEX ==
  (<<"a", "i", "r">> :> RInt(1))
  @@ (<<"v", "a", "c", "u", "u", "m">> :> RInt(1))
  @@ (<<"n", "-", "b", "k", "7">> :> Dec(<<1, 516, 800>>, 6))
  @@ (<<"b", "k", "7">> :> Dec(<<1, 516, 800>>, 6))
  @@ (<<"n", "b", "k", "7">> :> Dec(<<1, 516, 800>>, 6))
  @@ (<<"n", "-", "s", "f", "1", "1">> :> Dec(<<1, 784, 720>>, 6))
  @@ (<<"s", "f", "1", "1">> :> Dec(<<1, 784, 720>>, 6))
  @@ (<<"f", "u", "s", "e", "d", " ", "s", "i", "l", "i", "c", "a">> :> Dec(<<1, 458>>, 3))
  @@ (<<"f", "u", "s", "e", "d", "-", "s", "i", "l", "i", "c", "a">> :> Dec(<<1, 458>>, 3))
  @@ (<<"s", "i", "l", "i", "c", "a">> :> Dec(<<1, 458>>, 3))
  @@ (<<"s", "a", "p", "p", "h", "i", "r", "e">> :> Dec(<<1, 770>>, 3))
  @@ (<<"s", "f", "5">> :> Dec(<<1, 672, 700>>, 6))
  @@ (<<"n", "-", "s", "f", "5">> :> Dec(<<1, 672, 700>>, 6))
  @@ (<<"s", "f", "1", "0">> :> Dec(<<1, 728, 300>>, 6))
  @@ (<<"n", "-", "s", "f", "1", "0">> :> Dec(<<1, 728, 300>>, 6))
  @@ (<<"b", "a", "f", "1", "0">> :> Dec(<<1, 670>>, 3))
  @@ (<<"n", "-", "b", "a", "f", "1", "0">> :> Dec(<<1, 670>>, 3))
  @@ (<<"l", "a", "k", "9">> :> Dec(<<1, 691>>, 3))
  @@ (<<"n", "-", "l", "a", "k", "9">> :> Dec(<<1, 691>>, 3))

\* the null of SellmeierCoeffs | null
Null == [B |-> << >>, C |-> << >>]

\* a material field that is absent: the value undefined, which is no string
Undefined == <<"undefined">>

\* the TypeError that material.toLowerCase() raises when material is no string
TypeError == [B |-> << >>, C |-> <<"TypeError">>]

\* what a property that MATERIAL_INDEX inherits from Object.prototype holds: a
\* function or an object, no number
ObjectValue == [k |-> "object", s |-> 0, m |-> << >>, e |-> 0]

\* the lower-case names that every object literal inherits from Object.prototype
ObjectPrototype ==
  (<<"c", "o", "n", "s", "t", "r", "u", "c", "t", "o", "r">> :> ObjectValue)
  @@ (<<"_", "_", "p", "r", "o", "t", "o", "_", "_">> :> ObjectValue)

\* number as a string -> display name of the material
MATERIAL_DISPLAY ==
  (<<"1">> :> <<"A", "i", "r">>)
  @@ (<<"1", ".", "0">> :> <<"A", "i", "r">>)
  @@ (<<"1", ".", "5", "1", "6", "8">> :> <<"N", "-", "B", "K", "7">>)
  @@ (<<"1", ".", "7", "8", "4", "7", "2">> :> <<"N", "-", "S", "F", "1", "1">>)
  @@ (<<"1", ".", "4", "5", "8">> :> <<"F", "u", "s", "e", "d", " ", "S", "i", "l", "i", "c", "a">>)
  @@ (<<"1", ".", "7", "7">> :> <<"S", "a", "p", "p", "h", "i", "r", "e">>)
  @@ (<<"1", ".", "6", "7", "2", "7">> :> <<"N", "-", "S", "F", "5">>)
  @@ (<<"1", ".", "7", "2", "8", "3">> :> <<"N", "-", "S", "F", "1", "0">>)
  @@ (<<"1", ".", "6", "7">> :> <<"N", "-", "B", "A", "F", "1", "0">>)
  @@ (<<"1", ".", "6", "9", "1">> :> <<"N", "-", "L", "A", "K", "9">>)

DecimalDigits == <<"0", "1", "2", "3", "4", "5", "6", "7", "8", "9">>
IsDigit(ch) == \E v \in 1..10 : DecimalDigits[v] = ch
DigitValue(ch) == (CHOOSE v \in 1..10 : DecimalDigits[v] = ch) - 1

\* the number of digits of str from position p on, up to the first character
\* that is no digit
DigitRun(str, p) == Eval("DigitRun", <<str, p>>)

\* the natural number that the decimal digits ds[lo], ..., ds[hi] denote
NatFromDigits(ds, lo, hi) == Eval("NatFromDigits", <<ds, lo, hi>>)

\* the decimal digits of a, followed by ds
NatDigitsFrom(a, ds) == Eval("NatDigitsFrom", <<a, ds>>)

\* the decimal digits of a natural number, "0" for zero
NatToDigits(a) == Eval("NatToDigits", <<a>>)

\* the number that the first i digits of an exponent denote, 1000000000 when it
\* is that or larger: such an exponent gives Infinity or 0 with every mantissa
\* a string can hold, as the length of a string is below 2^30
ExponentValue(ds, i) == Eval("ExponentValue", <<ds, i>>)

\* the value of a decimal literal of sign sgn: the digits of its mantissa, the
\* numbers ni and nf of digits before and after the point, and the exponent e,
\* negative when negExp holds.  A literal of at least 10^400 is Infinity and
\* one below 10^-400 is 0, which the places of the mantissa and the exponent tell
StrValue(sgn, mantissa, ni, nf, negExp, e) == Eval("StrValue", <<sgn, mantissa, ni, nf, negExp, e>>)

\* the exponent part of a literal whose mantissa ends before position q: e or
\* E, a sign and digits; without digits it is no part of the literal
StrExponent(sgn, str, ni, nf, q) == Eval("StrExponent", <<sgn, str, ni, nf, q>>)

\* the mantissa of a literal: ni digits, then a point and digits
StrMantissa(sgn, str, ni) == Eval("StrMantissa", <<sgn, str, ni>>)

\* the literal after its sign: "Infinity" or a decimal
StrUnsigned(sgn, str) == Eval("StrUnsigned", <<sgn, str>>)

\* parseFloat: white space is skipped, then the longest prefix that is a
\* decimal literal (a sign, "Infinity" or digits with a point and an exponent)
\* is read as the double nearest to it, NaN when there is none
parseFloat(str) ==
  IF Len(str) >= 1 /\ str[1] \in WhiteSpace THEN Eval("parseFloat", <<Tail(str)>>)
  ELSE IF Len(str) >= 1 /\ str[1] \in {"+", "-"}
  THEN StrUnsigned(IF str[1] = "-" THEN -1 ELSE 1, Tail(str))
  ELSE StrUnsigned(1, str)

\* num rounded to k decimals, as the integer nearest to num * 10^k, for a finite
\* num >= 0.  When num * 10^k lies midway between two integers, String(num)
\* takes the even one (toEven) and toFixed the larger one
Rounded(num, k, toEven) == Eval("Rounded", <<num, k, toEven>>)

\* the least k' >= k for which the double a, rounded to k' decimals as
\* String(num) rounds, is read back as a, at most MaxPlaces
DecimalPlaces(a, k) == Eval("DecimalPlaces", <<a, k>>)

\* the digits ds with a point before the last k of them
PointBefore(ds, k) ==
  IF k = 0 THEN ds
  ELSE SubSeq(ds, 1, Len(ds) - k) \o <<".">> \o SubSeq(ds, Len(ds) - k + 1, Len(ds))

\* String(num) for a double 1 <= num < 3 (where parseMaterialIndex calls it):
\* the shortest decimal that is read back as num, the one nearest to num of
\* that length, and of two equally near the one with the even last digit
NumberToString(num) ==
  LET k == DecimalPlaces(num, 0)
  IN  PointBefore(NatToDigits(Rounded(num, k, TRUE)), k)

\* num.toFixed(4) for a double num >= 1: the multiple of 1/10000 nearest to
\* the exact value of num, the larger one of two equally near
toFixed4(num) == PointBefore(NatToDigits(Rounded(num, 4, FALSE)), 4)

\* 1.01, the index above which a surface counts as glass
AIR_LIKE_INDEX == Dec(<<1, 10>>, 3)

\* parseMaterialIndex of the editor: a material name or a number -> refractive
\* index, display name and type; the lookup MATERIAL_INDEX[lower] also finds what
\* the object inherits
parseMaterialIndex(input) ==
  LET trimmed == trim(IF input = Undefined THEN << >> ELSE input)
      lower == toLowerCase(trimmed)
      air == [refractiveIndex |-> RInt(1), material |-> <<"A", "i", "r">>, type |-> "Air"]
  IN  IF trimmed = << >> THEN air
      ELSE IF lower \in DOMAIN (ObjectPrototype @@ MATERIAL_INDEX)
      THEN LET n == (ObjectPrototype @@ MATERIAL_INDEX)[lower]
           IN  [refractiveIndex |-> n,
                material |-> IF IsFin(n) /\ REq(n, RInt(1)) THEN <<"A", "i", "r">>
                             ELSE trimmed,
                type |-> IF IsFin(n) /\ RGt(n, AIR_LIKE_INDEX)
                         THEN "Glass" ELSE "Air"]
      ELSE LET num == Eval("parseFloat", <<trimmed>>)
              shown == Eval("NumberToString", <<num>>)
           IN  IF ~IsNaN(num) /\ RLe(RInt(1), num) /\ RLt(num, RInt(3))
               THEN [refractiveIndex |-> num,
                     material |-> IF shown \in DOMAIN MATERIAL_DISPLAY
                                  THEN MATERIAL_DISPLAY[shown]
                                  ELSE <<"n", "=">> \o Eval("toFixed4", <<num>>),
                     type |-> IF RGt(num, AIR_LIKE_INDEX)
                              THEN "Glass" ELSE "Air"]
               ELSE air

\* getSellmeier without toLowerCase
getSellmeier_CaseSensitive(material) ==
  LET name == trim(material)
  IN  IF name \in DOMAIN MATERIAL_TO_SELLMEIER
      THEN SELLMEIER[MATERIAL_TO_SELLMEIER[name]]
      ELSE Null

\* getSellmeier taking the first alias that the name starts with
getSellmeier_Prefix(material) ==
  LET name == trim(toLowerCase(material))
      heads == {a \in DOMAIN MATERIAL_TO_SELLMEIER :
                  Len(a) <= Len(name) /\ SubSeq(name, 1, Len(a)) = a}
  IN  IF heads # {}
      THEN SELLMEIER[MATERIAL_TO_SELLMEIER[CHOOSE a \in heads :
                                             \A b \in heads : Len(a) >= Len(b)]]
      ELSE Null

getSellmeier(material) ==
  LET name == trim(toLowerCase(material))
  IN  IF material = Undefined THEN TypeError
      ELSE IF name \in DOMAIN MATERIAL_TO_SELLMEIER
      THEN LET key == MATERIAL_TO_SELLMEIER[name]
           IN  IF key \in DOMAIN SELLMEIER THEN SELLMEIER[key] ELSE Null
      ELSE Null

(***************************************************************************)
(* Refractive index evaluator and derivative estimator.                    *)
(***************************************************************************)
RECURSIVE SellmeierSum(_, _, _, _)
\* the loop of nFromSellmeier from term i on, n2 being the sum so far
SellmeierSum(coeffs, lam2, i, n2) ==
  IF i > 3 THEN n2
  ELSE SellmeierSum(coeffs, lam2, i + 1,
                    RAdd(n2, RDiv(RMul(coeffs.B[i], lam2), RSub(lam2, coeffs.C[i]))))

\* nFromSellmeier without the clamp of n^2
nFromSellmeier_NoClamp(lambdaNm, coeffs) ==
  LET lam == RMul(lambdaNm, Exp10(-3))
      lam2 == RMul(lam, lam)
  IN  RSqrt(SellmeierSum(coeffs, lam2, 1, RInt(1)))

nFromSellmeier(lambdaNm, coeffs) ==
  LET lam == RMul(lambdaNm, Exp10(-3))
      lam2 == RMul(lam, lam)
      n2 == SellmeierSum(coeffs, lam2, 1, RInt(1))
  IN  RSqrt(RMax(n2, RInt(1)))

\* refractiveIndexAtWavelength with N-BK7 standing in for an unknown material
refractiveIndexAtWavelength_Fallback(lambdaNm, material, nDefault) ==
  LET coeffs == getSellmeier(material)
  IN  nFromSellmeier(lambdaNm, IF coeffs # Null THEN coeffs ELSE SELLMEIER["N-BK7"])

refractiveIndexAtWavelength(lambdaNm, material, nDefault) ==
  LET coeffs == Eval("getSellmeier", <<material>>)
  IN  IF coeffs # Null THEN nFromSellmeier(lambdaNm, coeffs) ELSE nDefault

\* 0.5 nm
DEL == Dec(<<500>>, 3)

\* probe wavelengths (nm): 800 and the d-line 587.6
Wavelengths == {RInt(800), Dec(<<587, 600>>, 3)}

\* d2n_dlambda2 with the stencil on one side: lambda, lambda + h, lambda + 2h
d2n_dlambda2_Forward(lambdaNm, coeffs) ==
  LET n0 == nFromSellmeier(lambdaNm, coeffs)
      nP == nFromSellmeier(RAdd(lambdaNm, DEL), coeffs)
      nPP == nFromSellmeier(RAdd(RAdd(lambdaNm, DEL), DEL), coeffs)
  IN  RDiv(RAdd(RSub(nPP, RMul(RInt(2), nP)), n0), RMul(DEL, DEL))

d2n_dlambda2(lambdaNm, coeffs) ==
  LET n0 == nFromSellmeier(lambdaNm, coeffs)
      nP == nFromSellmeier(RAdd(lambdaNm, DEL), coeffs)
      nM == nFromSellmeier(RSub(lambdaNm, DEL), coeffs)
  IN  RDiv(RAdd(RSub(nP, RMul(RInt(2), n0)), nM), RMul(DEL, DEL))

\* d3n_dlambda3 dividing by the step, not by twice the step
d3n_dlambda3_Step(lambdaNm, coeffs) ==
  LET n2 == d2n_dlambda2(RAdd(lambdaNm, DEL), coeffs)
      n1 == d2n_dlambda2(RSub(lambdaNm, DEL), coeffs)
  IN  RDiv(RSub(n2, n1), DEL)

\* d3n_dlambda3 with the one-sided difference (d2n(lambda + h) - d2n(lambda)) / h
d3n_dlambda3_OneSided(lambdaNm, coeffs) ==
  LET n2 == d2n_dlambda2(RAdd(lambdaNm, DEL), coeffs)
      n1 == d2n_dlambda2(lambdaNm, coeffs)
  IN  RDiv(RSub(n2, n1), DEL)

d3n_dlambda3(lambdaNm, coeffs) ==
  LET n2 == d2n_dlambda2(RAdd(lambdaNm, DEL), coeffs)
      n1 == d2n_dlambda2(RSub(lambdaNm, DEL), coeffs)
  IN  RDiv(RSub(n2, n1), RMul(RInt(2), DEL))

(***************************************************************************)
(* Unit-consistent dispersion calculator and pulse broadening predictor.   *)
(***************************************************************************)
\* 2.99792458e8
C_LIGHT_MS == Dec(<<299, 792, 458>>, 0)
\* Math.PI = 3.141592653589793
PI == Dec(<<3, 141, 592, 653, 589, 793>>, 15)
\* Math.LN2 = 0.6931471805599453
LN2 == Dec(<<693, 147, 180, 559, 945, 300>>, 18)

\* gddFs2 with the wavelength taken for micrometres
gddFs2_Micron(lambdaNm, d2n_perNm2, L_mm) ==
  LET lam_m == RMul(lambdaNm, Exp10(-6))
      d2n_perM2 == RMul(d2n_perNm2, Exp10(18))
      c == C_LIGHT_MS
      L == RMul(L_mm, Exp10(-3))
      gdd_s2 == RDiv(RMul(RMul(L, RPow(lam_m, 3)), d2n_perM2),
                     RMul(RMul(RMul(RMul(RInt(2), PI), PI), c), c))
  IN  RMul(gdd_s2, Exp10(30))

\* gddFs2 with one millimetre added to the path
gddFs2_Offset(lambdaNm, d2n_perNm2, L_mm) ==
  LET lam_m == RMul(lambdaNm, Exp10(-9))
      d2n_perM2 == RMul(d2n_perNm2, Exp10(18))
      c == C_LIGHT_MS
      L == RMul(RAdd(L_mm, RInt(1)), Exp10(-3))
      gdd_s2 == RDiv(RMul(RMul(L, RPow(lam_m, 3)), d2n_perM2),
                     RMul(RMul(RMul(RMul(RInt(2), PI), PI), c), c))
  IN  RMul(gdd_s2, Exp10(30))

gddFs2(lambdaNm, d2n_perNm2, L_mm) ==
  LET lam_m == RMul(lambdaNm, Exp10(-9))
      d2n_perM2 == RMul(d2n_perNm2, Exp10(18))
      c == C_LIGHT_MS
      L == RMul(L_mm, Exp10(-3))
      gdd_s2 == RDiv(RMul(RMul(L, RPow(lam_m, 3)), d2n_perM2),
                     RMul(RMul(RMul(RMul(RInt(2), PI), PI), c), c))
  IN  RMul(gdd_s2, Exp10(30))

\* todFs3 with the third derivative rescaled like the second
todFs3_Basis(lambdaNm, d2n_perNm2, d3n_perNm3, L_mm) ==
  LET lam_m == RMul(lambdaNm, Exp10(-9))
      d2n_perM2 == RMul(d2n_perNm2, Exp10(18))
      d3n_perM3 == RMul(d3n_perNm3, Exp10(18))
      c == C_LIGHT_MS
      L == RMul(L_mm, Exp10(-3))
      term == RSub(RMul(lam_m, d3n_perM3), RMul(RInt(2), d2n_perM2))
      tod_s3 == RDiv(RMul(RMul(L, RPow(lam_m, 4)), term),
                     RMul(RMul(RInt(4), RPow(PI, 3)), RPow(c, 3)))
  IN  RMul(tod_s3, Exp10(45))

\* todFs3 with the absolute value of the length
todFs3_AbsLength(lambdaNm, d2n_perNm2, d3n_perNm3, L_mm) ==
  LET lam_m == RMul(lambdaNm, Exp10(-9))
      d2n_perM2 == RMul(d2n_perNm2, Exp10(18))
      d3n_perM3 == RMul(d3n_perNm3, Exp10(27))
      c == C_LIGHT_MS
      L == RMul(RMax(L_mm, RNeg(L_mm)), Exp10(-3))
      term == RSub(RMul(lam_m, d3n_perM3), RMul(RInt(2), d2n_perM2))
      tod_s3 == RDiv(RMul(RMul(L, RPow(lam_m, 4)), term),
                     RMul(RMul(RInt(4), RPow(PI, 3)), RPow(c, 3)))
  IN  RMul(tod_s3, Exp10(45))

todFs3(lambdaNm, d2n_perNm2, d3n_perNm3, L_mm) ==
  LET lam_m == RMul(lambdaNm, Exp10(-9))
      d2n_perM2 == RMul(d2n_perNm2, Exp10(18))
      d3n_perM3 == RMul(d3n_perNm3, Exp10(27))
      c == C_LIGHT_MS
      L == RMul(L_mm, Exp10(-3))
      term == RSub(RMul(lam_m, d3n_perM3), RMul(RInt(2), d2n_perM2))
      tod_s3 == RDiv(RMul(RMul(L, RPow(lam_m, 4)), term),
                     RMul(RMul(RInt(4), RPow(PI, 3)), RPow(c, 3)))
  IN  RMul(tod_s3, Exp10(45))

\* predictedExitPulseWidthFs with (4 ln 2)^2 in the TOD term too
predictedExitPulseWidthFs_Square(tauInFs, gddTotalFs2, todTotalFs3) ==
  LET a == RMul(RInt(4), LN2)
      tau2 == RMul(tauInFs, tauInFs)
      gddTerm == RDiv(RMul(RMul(RMul(a, a), gddTotalFs2), gddTotalFs2), tau2)
      todTerm == RDiv(RMul(RMul(RMul(a, a), todTotalFs3), todTotalFs3),
                      RMul(tau2, tau2))
  IN  RSqrt(RMax(RInt(0), RAdd(RAdd(tau2, gddTerm), todTerm)))

\* predictedExitPulseWidthFs with GDD in place of GDD^2 in the GDD term
predictedExitPulseWidthFs_Signed(tauInFs, gddTotalFs2, todTotalFs3) ==
  LET a == RMul(RInt(4), LN2)
      tau2 == RMul(tauInFs, tauInFs)
      gddTerm == RDiv(RMul(RMul(a, a), gddTotalFs2), tau2)
      todTerm == RDiv(RMul(RMul(RMul(RMul(a, a), a), todTotalFs3), todTotalFs3),
                      RMul(tau2, tau2))
  IN  RSqrt(RMax(RInt(0), RAdd(RAdd(tau2, gddTerm), todTerm)))

predictedExitPulseWidthFs(tauInFs, gddTotalFs2, todTotalFs3) ==
  LET a == RMul(RInt(4), LN2)
      tau2 == RMul(tauInFs, tauInFs)
      gddTerm == RDiv(RMul(RMul(RMul(a, a), gddTotalFs2), gddTotalFs2), tau2)
      todTerm == RDiv(RMul(RMul(RMul(RMul(a, a), a), todTotalFs3), todTotalFs3),
                      RMul(tau2, tau2))
  IN  RSqrt(RMax(RInt(0), RAdd(RAdd(tau2, gddTerm), todTerm)))

(***************************************************************************)
(* Stack aggregator: computeDispersion as a state machine, one step per    *)
(* iteration of its loop.                                                  *)
(***************************************************************************)
\* the accumulation of the loop body, once s has passed the tests
Accumulate(s, coeffs, lambdaNm, gdd, tod) ==
  LET L == s.thickness
      d2n == d2n_dlambda2(lambdaNm, coeffs)
      d3n == d3n_dlambda3(lambdaNm, coeffs)
  IN  <<RAdd(gdd, gddFs2(lambdaNm, d2n, L)), RAdd(tod, todFs3(lambdaNm, d2n, d3n, L))>>

\* the loop body with < in place of <= in the index test
LoopBody_Strict(s, lambdaNm, gdd, tod) ==
  IF s.type = "Air" \/ RLt(s.refractiveIndex, AIR_LIKE_INDEX) THEN <<gdd, tod>>
  ELSE LET coeffs == getSellmeier(s.material)
       IN  IF coeffs = Null THEN <<gdd, tod>> ELSE Accumulate(s, coeffs, lambdaNm, gdd, tod)

\* the loop body without the test of the type
LoopBody_NoType(s, lambdaNm, gdd, tod) ==
  IF RLe(s.refractiveIndex, AIR_LIKE_INDEX) THEN <<gdd, tod>>
  ELSE LET coeffs == getSellmeier(s.material)
       IN  IF coeffs = Null THEN <<gdd, tod>> ELSE Accumulate(s, coeffs, lambdaNm, gdd, tod)

\* the loop body with N-BK7 standing in for a material that is not registered
LoopBody_Default(s, lambdaNm, gdd, tod) ==
  IF s.type = "Air" \/ RLe(s.refractiveIndex, AIR_LIKE_INDEX) THEN <<gdd, tod>>
  ELSE LET coeffs == getSellmeier(s.material)
       IN  Accumulate(s, IF coeffs = Null THEN SELLMEIER["N-BK7"] ELSE coeffs,
                      lambdaNm, gdd, tod)

\* the loop body with = in place of += : the totals are those of the last glass
LoopBody_Assign(s, lambdaNm, gdd, tod) ==
  IF s.type = "Air" \/ RLe(s.refractiveIndex, AIR_LIKE_INDEX) THEN <<gdd, tod>>
  ELSE LET coeffs == getSellmeier(s.material)
       IN  IF coeffs = Null THEN <<gdd, tod>>
           ELSE Accumulate(s, coeffs, lambdaNm, RInt(0), RInt(0))

\* the loop body with the totals so far doubled before each addition
LoopBody_Doubling(s, lambdaNm, gdd, tod) ==
  IF s.type = "Air" \/ RLe(s.refractiveIndex, AIR_LIKE_INDEX) THEN <<gdd, tod>>
  ELSE LET coeffs == getSellmeier(s.material)
       IN  IF coeffs = Null THEN <<gdd, tod>>
           ELSE Accumulate(s, coeffs, lambdaNm, RMul(RInt(2), gdd), RMul(RInt(2), tod))

\* one iteration of the loop over the surfaces: the totals after surface s
LoopBody(s, lambdaNm, gdd, tod) ==
  IF s.type = "Air" \/ RLe(s.refractiveIndex, AIR_LIKE_INDEX) THEN <<gdd, tod>>
  ELSE LET coeffs == Eval("getSellmeier", <<s.material>>)
       IN  IF coeffs = Null THEN <<gdd, tod>>
           ELSE LET L == s.thickness
                    d2n == Eval("d2n_dlambda2", <<lambdaNm, coeffs>>)
                    d3n == Eval("d3n_dlambda3", <<lambdaNm, coeffs>>)
                IN  <<RAdd(gdd, gddFs2(lambdaNm, d2n, L)),
                      RAdd(tod, todFs3(lambdaNm, d2n, d3n, L))>>

\* the loop body raises: s passes the two tests and getSellmeier(s.material) throws
Raises(s) ==
  /\ ~(s.type = "Air" \/ RLe(s.refractiveIndex, AIR_LIKE_INDEX))
  /\ Eval("getSellmeier", <<s.material>>) = TypeError

\* the record computeDispersion returns for the totals of the loop
DispersionResult(pulseWidthFs, gdd, tod) ==
  [gddFs2 |-> gdd, todFs3 |-> tod,
   predictedExitPulseWidthFs |-> predictedExitPulseWidthFs(pulseWidthFs, gdd, tod)]

RECURSIVE LoopFrom(_, _, _, _, _)
\* the totals after the surfaces from position i on
LoopFrom(surfs, lambdaNm, i, gdd, tod) ==
  IF i > Len(surfs) THEN <<gdd, tod>>
  ELSE LET t == LoopBody(surfs[i], lambdaNm, gdd, tod)
       IN  LoopFrom(surfs, lambdaNm, i + 1, t[1], t[2])

\* computeDispersion as a function of its arguments
computeDispersion(surfs, lambdaNm, pulseWidthFs) ==
  LET t == LoopFrom(surfs, lambdaNm, 1, RInt(0), RInt(0))
  IN  DispersionResult(pulseWidthFs, t[1], t[2])

\* the surfaces the stacks of the model are made of
SurfaceSet ==
  { [thickness |-> RInt(6), material |-> <<"N", "-", "B", "K", "7">>, type |-> "Glass",
     refractiveIndex |-> Dec(<<1, 516, 800>>, 6)],
    [thickness |-> Dec(<<2, 500>>, 3), material |-> <<" ", "s", "f", "1", "1">>,
     type |-> "Glass", refractiveIndex |-> Dec(<<1, 784, 720>>, 6)],
    [thickness |-> RInt(10), material |-> <<"A", "i", "r">>, type |-> "Air",
     refractiveIndex |-> RInt(1)],
    [thickness |-> RInt(4), material |-> <<"b", "k", "7">>, type |-> "Air",
     refractiveIndex |-> Dec(<<1, 516, 800>>, 6)],
    [thickness |-> RInt(3), material |-> <<"b", "k", "7">>, type |-> "Glass",
     refractiveIndex |-> Dec(<<1, 10>>, 3)],
    [thickness |-> RInt(5),
     material |-> <<"u", "n", "o", "b", "t", "a", "i", "n", "i", "u", "m">>,
     type |-> "Glass", refractiveIndex |-> Dec(<<1, 500>>, 3)] }

\* stacks of N-BK7 plates of thickness 6 mm, 0 mm and -6 mm
ThicknessStacks ==
  LET plate(t) == [thickness |-> t, material |-> <<"N", "-", "B", "K", "7">>,
                   type |-> "Glass", refractiveIndex |-> Dec(<<1, 516, 800>>, 6)]
  IN  {<<plate(RInt(0))>>, <<plate(RNeg(RInt(6)))>>, <<plate(RInt(6)), plate(RInt(0))>>,
       <<plate(RNeg(RInt(6))), plate(RInt(6))>>}

\* plates as the editor makes them of a material name: the name, type 'Glass'
\* and the nominal index of MATERIAL_INDEX
EditorStacks ==
  LET plate(name) == [thickness |-> RInt(5), material |-> name, type |-> "Glass",
                      refractiveIndex |-> MATERIAL_INDEX[name]]
  IN  {<<plate(<<"s", "a", "p", "p", "h", "i", "r", "e">>)>>, <<plate(<<"s", "f", "5">>)>>,
       <<plate(<<"s", "f", "1", "0">>)>>, <<plate(<<"s", "i", "l", "i", "c", "a">>)>>}

RECURSIVE SeqsUpTo(_, _)
\* the sequences over S of length at most n
SeqsUpTo(S, n) ==
  IF n = 0 THEN {<< >>}
  ELSE LET shorter == SeqsUpTo(S, n - 1)
       IN  shorter \cup {Append(q, e) : q \in shorter, e \in S}

Stacks == SeqsUpTo(SurfaceSet, MaxStack)

\* input pulse durations (fs): of the direct calls, and of computeDispersion
PulseWidths == {RInt(0), RInt(100), Dec(<<30, 500>>, 3)}
StackPulseWidths == {RInt(0), RInt(100)}

\* arguments of the direct calls: d2n (1/nm^2), d3n (1/nm^3), L (mm), GDD (fs^2), TOD (fs^3)
D2nSamples == {RInt(0), Dec(<<49, 248>>, 12), RNeg(Dec(<<12, 500>>, 12))}
D3nSamples == {RInt(0), RNeg(Dec(<<288, 890>>, 15)), Dec(<<100>>, 12)}
Lengths == {RInt(1), Dec(<<2, 500>>, 3), RInt(6)}
\* lengths no plate has: none, and a negative one
OddLengths == {RInt(0), RNeg(RInt(6))}
GddSamples == {RInt(0), Dec(<<85, 280>>, 3), RNeg(RInt(120)), RInt(1000)}
TodSamples == {RInt(0), RNeg(Dec(<<242, 400>>, 3)), RInt(500)}

\* totals so small that their terms are lost when added to tau_in^2 = 10^4 and
\* rooted: 1e-9 fs^2 and -1e-9 fs^3
TinySamples == {Exp10(-9), RNeg(Exp10(-9))}

\* arguments of the direct calls of the evaluator: wavelengths (nm), 77 nm lying
\* below the ultraviolet resonances, and coefficient sets, two of them not of
\* the registry and with a resonance at 500 nm (C_1 = 0.25 um^2 = (0.5 um)^2, which
\* the floating-point arithmetic of the source meets exactly as well), one with
\* a positive and one with a negative B_1
PoleWavelength == RInt(500)
EvaluatorWavelengths == Wavelengths \cup {RInt(77), PoleWavelength}
DerivativeWavelengths == Wavelengths \cup {PoleWavelength}
\* wavelengths about the resonance: 1e-8 nm above and below it, where the index
\* is finite and large, and one and two steps of the stencils below it
PoleNeighbours ==
  {Dec(<<500, 0, 0, 10>>, 9), Dec(<<499, 999, 999, 990>>, 9), Dec(<<499, 500>>, 3), RInt(499)}
PoleCoeffs ==
  {[B |-> <<RInt(1), Dec(<<500>>, 3), RInt(1)>>,
    C |-> <<Dec(<<250>>, 3), Dec(<<10>>, 3), RInt(100)>>],
   [B |-> <<RNeg(RInt(1)), Dec(<<500>>, 3), RInt(1)>>,
    C |-> <<Dec(<<250>>, 3), Dec(<<10>>, 3), RInt(100)>>]}
CoeffSamples == {SELLMEIER["N-BK7"], SELLMEIER["N-SF11"]} \cup PoleCoeffs

\* the standard d-line (nm), at which the registry is compared with the nominal indices
DLine == Dec(<<587, 600>>, 3)

\* material strings: every alias of the table in lower case, in upper case, with
\* a capital initial and in upper case between white space, and strings that
\* are no alias
UpperCase(ch) ==
  LET small == <<"a", "b", "c", "d", "e", "f", "g", "h", "i", "j", "k", "l", "m",
                 "n", "o", "p", "q", "r", "s", "t", "u", "v", "w", "x", "y", "z">>
      at == {k \in 1..Len(small) : small[k] = ch}
      capital == <<"A", "B", "C", "D", "E", "F", "G", "H", "I", "J", "K", "L", "M",
                   "N", "O", "P", "Q", "R", "S", "T", "U", "V", "W", "X", "Y", "Z">>
  IN  IF at = {} THEN ch ELSE capital[CHOOSE k \in at : TRUE]
toUpperCase(str) == SubSeq([i \in 1..Len(str) |-> UpperCase(str[i])], 1, Len(str))
AliasSpellings ==
  UNION {{a, toUpperCase(a), <<UpperCase(a[1])>> \o SubSeq(a, 2, Len(a)),
          <<" ">> \o toUpperCase(a) \o <<"\t", " ">>} : a \in DOMAIN MATERIAL_TO_SELLMEIER}
OtherStrings ==
  {
    <<"s", "f", "5">>, <<"n", "s", "f", "5">>, <<"s", "f", "1", "0">>,
    <<"n", "s", "f", "1", "0">>, <<"n", "s", "f", "1", "1">>,
    <<"n", "b", "a", "f", "1", "0">>, <<"n", "l", "a", "k", "9">>, <<"b", "k">>,
    <<"b", "k", "7", "x">>, <<"n", "-", "b", "k", "7", " ", "g", "l", "a", "s", "s">>,
    <<"b", " ", "k", "7">>, <<"n", "-", "-", "b", "k", "7">>, <<>>, <<"7">>,
    <<"1", ".", "5", "1", "6", "8">>,
    <<"u", "n", "o", "b", "t", "a", "i", "n", "i", "u", "m">>,
    <<"c", "o", "n", "s", "t", "r", "u", "c", "t", "o", "r">>, <<"a", "i", "r">>,
    <<"B", "U+212A", "7">>, <<"N", "-", "L", "A", "U+212A", "9">>,
    <<"S", "U+0130", "L", "I", "C", "A">>, <<"U+00A0", "F", "2", "U+FEFF">>,
    <<"B", "K", "7", "U+03A3">>, <<"U+D801", "U+DC00", "F", "2">> }
MaterialSamples == AliasSpellings \cup OtherStrings

\* arguments of refractiveIndexAtWavelength
IndexMaterials ==
  {<<"B", "K", "7">>, <<" ", "n", "-", "S", "F", "1", "1">>, <<"s", "f", "5">>, << >>,
   <<"u", "n", "o", "b", "t", "a", "i", "n", "i", "u", "m">>}
DefaultIndices == {Dec(<<1, 500>>, 3), RInt(1)}

\* inputs of parseMaterialIndex: names, numerals, and strings that are neither
ParseInputs ==
  {Undefined,
   <<>>,
   <<" ", " ">>,
   <<"N", "-", "B", "K", "7">>,
   <<" ", "b", "k", "7", " ">>,
   <<"A", "i", "r">>,
   <<"V", "A", "C", "U", "U", "M">>,
   <<"S", "a", "p", "p", "h", "i", "r", "e">>,
   <<"1", ".", "5">>,
   <<"1", ".", "5", "1", "6", "8">>,
   <<"1">>,
   <<"1", ".", "0">>,
   <<"1", ".", "0", "1">>,
   <<"1", ".", "0", "0", "5">>,
   <<"2", ".", "9", "9", "9", "9">>,
   <<"2", ".", "9", "9", "9", "9", "6">>,
   <<"3">>,
   <<"0", ".", "9", "9">>,
   <<"-", "1", ".", "5">>,
   <<"+", "1", ".", "5">>,
   <<"a", "b", "c">>,
   <<"1", ".", "5", "a", "b", "c">>,
   <<"1", "e", "0">>,
   <<"1", "5", "e", "-", "1">>,
   <<"3", "e", "-", "1">>,
   <<"1", "e", "4", "0", "0">>,
   <<".", "5">>,
   <<"1", ".">>,
   <<".">>,
   <<"I", "n", "f", "i", "n", "i", "t", "y">>,
   <<"c", "o", "n", "s", "t", "r", "u", "c", "t", "o", "r">>,
   <<"_", "_", "p", "r", "o", "t", "o", "_", "_">>,
   <<"1", "2">>,
   <<"1", ".", "7", "7">>,
   <<"1", ".", "6", "9", "0", "4", "3", "7", "3", "1", "6", "8", "9", "4", "5", "3", "1", "2", "5">>,
   <<"0", "x", "1", "0">>,
   <<"1", ",", "5">>,
   <<"n", "=", "1", ".", "5", "0", "0", "0">>,
   <<"e", "5">>,
   <<"\f", "b", "k", "7", "U+00A0">>,
   <<"U+FEFF", "1", ".", "5", "U+2028">>,
   <<"1", "5", "e", "-", "0", "0", "0", "1">>,
   <<"2", "e", "3", "0", "8">>,
   <<"2", ".", "0", "0", "0", "0", "5">>,
   <<"1", ".", "0", "1", "0", "0", "0", "0", "0", "0", "0", "0", "0", "0", "0", "0", "0",
     "0", "0", "0", "1">>,
   <<"2", ".", "9", "9", "9", "9", "9", "9", "9", "9", "9", "9", "9", "9", "9", "9", "9",
     "9", "9", "9", "9">>}

\* the direct calls made: the function and its arguments
DirectCalls ==
  {<<"gddFs2", <<lam, d2n, L>>>> : lam \in Wavelengths, d2n \in D2nSamples, L \in Lengths}
  \cup {<<"todFs3", <<lam, d2n, d3n, L>>>> :
          lam \in Wavelengths, d2n \in D2nSamples, d3n \in D3nSamples, L \in Lengths}
  \cup {<<"todFs3", <<RInt(800), d2n, d3n, L>>>> :
          d2n \in D2nSamples, d3n \in D3nSamples, L \in OddLengths}
  \cup {<<"predictedExitPulseWidthFs", <<tau, gdd, tod>>>> :
          tau \in PulseWidths, gdd \in GddSamples, tod \in TodSamples}
  \cup {<<"predictedExitPulseWidthFs", <<RInt(100), gdd, tod>>>> :
          gdd \in TinySamples \cup {RInt(0)}, tod \in TinySamples \cup {RInt(0)}}
  \cup {<<"nFromSellmeier", <<lam, coeffs>>>> :
          lam \in EvaluatorWavelengths, coeffs \in CoeffSamples}
  \cup {<<"nFromSellmeier", <<DLine, SELLMEIER[key]>>>> : key \in DOMAIN SELLMEIER}
  \cup {<<"d2n_dlambda2", <<lam, coeffs>>>> :
          lam \in DerivativeWavelengths, coeffs \in CoeffSamples}
  \cup {<<"d3n_dlambda3", <<lam, coeffs>>>> :
          lam \in DerivativeWavelengths, coeffs \in CoeffSamples}
  \cup {<<fn, <<lam, coeffs>>>> :
          fn \in {"nFromSellmeier", "d2n_dlambda2", "d3n_dlambda3"},
          lam \in PoleNeighbours, coeffs \in PoleCoeffs}
  \cup {<<"getSellmeier", <<material>>>> :
          material \in MaterialSamples \cup DOMAIN MATERIAL_INDEX}
  \cup {<<"parseMaterialIndex", <<input>>>> : input \in ParseInputs}
  \cup {<<"refractiveIndexAtWavelength", <<lam, material, nDefault>>>> :
          lam \in Wavelengths, material \in IndexMaterials, nDefault \in DefaultIndices}

\* the stacks of the repeated invocations
RepeatStacks == {surfs \in Stacks : Len(surfs) < MaxStack}

\* the direct calls among the repeated invocations
RepeatCalls ==
  {<<"gddFs2", <<lam, d2n, RInt(6)>>>> : lam \in Wavelengths, d2n \in D2nSamples}
  \cup {<<"predictedExitPulseWidthFs", <<RInt(100), gdd, RInt(500)>>>> : gdd \in GddSamples}
  \cup {<<"nFromSellmeier", <<RInt(800), coeffs>>>> : coeffs \in CoeffSamples}

\* surfaces without a material, and the stacks made of them
AbsentSurfaceSet ==
  { [thickness |-> RInt(5), material |-> Undefined, type |-> "Glass",
     refractiveIndex |-> Dec(<<1, 500>>, 3)],
    [thickness |-> RInt(5), material |-> Undefined, type |-> "Air",
     refractiveIndex |-> Dec(<<1, 500>>, 3)],
    [thickness |-> RInt(5), material |-> Undefined, type |-> "Glass",
     refractiveIndex |-> RInt(1)],
    [thickness |-> RInt(5),
     material |-> <<"u", "n", "o", "b", "t", "a", "i", "n", "i", "u", "m">>,
     type |-> "Glass", refractiveIndex |-> Dec(<<1, 500>>, 3)],
    [thickness |-> RInt(6), material |-> <<"N", "-", "B", "K", "7">>, type |-> "Glass",
     refractiveIndex |-> Dec(<<1, 516, 800>>, 6)],
    [thickness |-> RInt(10), material |-> <<"A", "i", "r">>, type |-> "Air",
     refractiveIndex |-> RInt(1)] }

AbsentStacks == SeqsUpTo(AbsentSurfaceSet, MaxStack)

\* the invocations that interleave, each the arguments of computeDispersion: two
\* glasses that both add to the totals, a glass followed by an unknown
\* material, a glass followed by an element without a material, a gap followed
\* by a glass, and an element without a material first
InterleavedInvocations ==
  LET glass(name, t, n) ==
        [thickness |-> t, material |-> name, type |-> "Glass", refractiveIndex |-> n]
      bk7 == glass(<<"N", "-", "B", "K", "7">>, RInt(6), Dec(<<1, 516, 800>>, 6))
      sf11 == glass(<<" ", "s", "f", "1", "1">>, Dec(<<2, 500>>, 3), Dec(<<1, 784, 720>>, 6))
      unknown == glass(<<"u", "n", "o", "b", "t", "a", "i", "n", "i", "u", "m">>, RInt(5),
                       Dec(<<1, 500>>, 3))
      absent == glass(Undefined, RInt(5), Dec(<<1, 500>>, 3))
      gap == [thickness |-> RInt(10), material |-> <<"A", "i", "r">>, type |-> "Air",
              refractiveIndex |-> RInt(1)]
  IN  {<<<<bk7, sf11>>, RInt(800), RInt(100)>>,
       <<<<bk7, unknown>>, DLine, Dec(<<30, 500>>, 3)>>,
       <<<<sf11, absent>>, DLine, RInt(100)>>,
       <<<<gap, bk7>>, RInt(800), RInt(100)>>,
       <<<<absent, bk7>>, RInt(800), RInt(100)>>}

\* the inputs of the state machines below, by name; the evaluator hands them out
\* (arguments of computeDispersion: the stack, the wavelength, the pulse width)
InputTable ==
  [Invocations |->
     (Stacks \X Wavelengths \X StackPulseWidths)
     \cup ((ThicknessStacks \cup EditorStacks) \X {RInt(800)} \X {RInt(100)}),
   DirectCalls |-> DirectCalls,
   RepeatInvocations |-> RepeatStacks \X Wavelengths \X StackPulseWidths,
   RepeatCalls |-> RepeatCalls,
   InterleavedInvocations |-> InterleavedInvocations,
   AbsentInvocations |-> AbsentStacks \X {RInt(800)} \X {RInt(100)}]

(***************************************************************************)
(* The evaluator: the operations on numbers, and the exported functions of *)
(* the module, which the state machine below calls by name.  The arguments *)
(* are evaluated before the operation is applied.                          *)
(***************************************************************************)
Eval(op, x) ==
  CASE Len(x) = 0 ->
         \* a function called without arguments: they are undefined, which is
         \* NaN in arithmetic, has no property to read and cannot be iterated
         IF op = "parseMaterialIndex" THEN Eval(op, <<Undefined>>)
         ELSE IF op \in {"getSellmeier", "nFromSellmeier", "refractiveIndexAtWavelength",
                         "d2n_dlambda2", "d3n_dlambda3", "computeDispersion"}
         THEN TypeError
         ELSE NaN
    [] op = "NatTrim" ->
         LET a == x[1]
         IN  SubSeq(a, 1, NatHighest(a, 1, Len(a)))
    [] op = "NatCarry" ->
         LET a == x[1]
         IN
             IF \A i \in 1..Len(a) : a[i] >= 0 /\ a[i] < Base THEN a
             ELSE NatCarry(Limbs([i \in 1..(Len(a) + 1) |->
                                      (IF i <= Len(a) THEN a[i] % Base ELSE 0)
                                      + (IF i > 1 THEN a[i - 1] \div Base ELSE 0)], Len(a) + 1))
    [] op = "NatFromInt" ->
         LET v == x[1]
         IN
             NatTrim(<<v % Base, (v \div Base) % Base, (v \div (Base * Base)) % Base,
                       v \div (Base * Base * Base)>>)
    [] op = "NatAdd" ->
         LET a == x[1]  b == x[2]
         IN
             NatTrim(NatCarry(Limbs([i \in 1..MaxI(Len(a), Len(b)) |-> NatLimb(a, i) + NatLimb(b, i)],
                                    MaxI(Len(a), Len(b)))))
    [] op = "NatSub" ->
         LET a == x[1]  b == x[2]
         IN  NatTrim(NatCarry(Limbs([i \in 1..Len(a) |-> a[i] - NatLimb(b, i)], Len(a))))
    [] op = "NatMul" ->
         LET a == x[1]  b == x[2]
         IN
             IF Len(a) = 0 \/ Len(b) = 0 THEN << >>
             ELSE NatTrim(NatCarry(Limbs([k \in 1..(Len(a) + Len(b) - 1) |->
                                            NatConv(a, b, k, MaxI(1, k - Len(b) + 1), MinI(k, Len(a)))],
                                         Len(a) + Len(b) - 1)))
    [] op = "NatScale" ->
         LET a == x[1]  v == x[2]  sh == x[3]
         IN
             IF v = 0 \/ Len(a) = 0 THEN << >>
             ELSE NatTrim(NatCarry(Limbs([i \in 1..(Len(a) + sh) |-> IF i <= sh THEN 0 ELSE a[i - sh] * v],
                                         Len(a) + sh)))
    [] op = "NatPow10" ->
         LET e == x[1]
         IN
             IF e = 0 THEN <<1>>
             ELSE IF e % 2 = 1 THEN NatScale(NatPow10(e - 1), 10, 0)
             ELSE LET h == NatPow10(e \div 2) IN NatMul(h, h)
    [] op = "NatShiftLeft" ->
         LET a == x[1]  sh == x[2]
         IN
             IF Len(a) = 0 THEN << >>
             ELSE IF sh % 10 = 0 THEN Limbs([i \in 1..(sh \div 10) |-> 0], sh \div 10) \o a
             ELSE NatScale(a, SmallPow2(sh % 10), sh \div 10)
    [] op = "NatShiftRight" ->
         LET a == x[1]  sh == x[2]
         IN
             LET z == sh \div 10
                 r == SmallPow2(sh % 10)
                 len == Len(a) - z
             IN  IF len <= 0 THEN << >>
                 ELSE NatTrim(Limbs([i \in 1..len |->
                                       (a[i + z] \div r) + (NatLimb(a, i + z + 1) % r) * (Base \div r)],
                                    len))
    [] op = "NatFromGroups" ->
         LET g == x[1]  i == x[2]
         IN
             IF i = 0 THEN << >>
             ELSE NatAdd(NatScale(NatFromGroups(g, i - 1), 1000, 0), NatFromInt(g[i]))
    [] op = "NatDivLimb" ->
         LET r == x[1]  d == x[2]  sh == x[3]  lo == x[4]  hi == x[5]
         IN
             IF lo >= hi THEN lo
             ELSE LET mid == (lo + hi + 1) \div 2
                  IN  IF NatCmp(NatScale(d, mid, sh), r) <= 0
                      THEN NatDivLimb(r, d, sh, mid, hi)
                      ELSE NatDivLimb(r, d, sh, lo, mid - 1)
    [] op = "NatQuotLimb" ->
         LET r == x[1]  d == x[2]  sh == x[3]
         IN
             LET t == Len(d) + sh + 1
                 r3 == NatTop3(r, t)
                 d2 == NatLimb(d, Len(d)) * Base + NatLimb(d, Len(d) - 1)
             IN  NatDivLimb(r, d, sh, r3 \div (d2 + 1), MinI(Base - 1, (r3 + 1) \div d2))
    [] op = "NatDivRange" ->
         LET r == x[1]  d == x[2]  lo == x[3]  hi == x[4]
         IN
             IF lo = hi
             THEN LET v == NatQuotLimb(r, d, lo - 1)
                  IN  <<<<v>>, NatSub(r, NatScale(d, v, lo - 1))>>
             ELSE LET mid == (lo + hi) \div 2
                      up == NatDivRange(r, d, mid + 1, hi)
                  IN  IF Len(up[2]) = 0
                      THEN <<Limbs([i \in 1..(mid - lo + 1) |-> 0], mid - lo + 1) \o up[1], << >>>>
                      ELSE LET dn == NatDivRange(up[2], d, lo, mid)
                           IN  <<dn[1] \o up[1], dn[2]>>
    [] op = "NatDivRem" ->
         LET a == x[1]  d == x[2]
         IN
             IF NatCmp(a, d) < 0 THEN <<<< >>, a>>
             ELSE LET t == NatDivRange(a, d, 1, Len(a) - Len(d) + 1)
                  IN  <<NatTrim(t[1]), t[2]>>
    [] op = "NatDivSmall" ->
         LET a == x[1]  v == x[2]  i == x[3]  r == x[4]  q == x[5]
         IN
             IF i = 0 THEN <<NatTrim(q), r>>
             ELSE NatDivSmall(a, v, i - 1, (r * Base + a[i]) % v, <<(r * Base + a[i]) \div v>> \o q)
    [] op = "NatSqrtFrom" ->
         LET r == x[1]  a == x[2]
         IN
             LET y == NatShiftRight(NatAdd(r, NatDiv(a, r)), 1)
             IN  IF NatCmp(y, r) >= 0 THEN r ELSE NatSqrtFrom(y, a)
    [] op = "NatSqrt" ->
         LET a == x[1]
         IN
             IF Len(a) <= 3 THEN NatFromInt(IntSqrt(NatTop3(a, 3)))
             ELSE LET top == NatTop3(a, Len(a))
                  IN  IF Len(a) % 2 = 1
                      THEN NatSqrtFrom(NatScale(NatFromInt(IntSqrt(top) + 1), 1, (Len(a) - 3) \div 2), a)
                      ELSE NatSqrtFrom(NatScale(NatFromInt(32 * (IntSqrt(top) + 1)), 1,
                                                (Len(a) - 4) \div 2), a)
    [] op = "Pack" ->
         LET s == x[1]  m == x[2]  e == x[3]
         IN
             IF Len(m) = 0 THEN SignedZero(s)
             ELSE IF e + NatBits(m) > 1024 THEN SignedInf(s)
             ELSE IF NatBits(m) > 53 THEN [k |-> "fin", s |-> s, m |-> NatShiftRight(m, 1), e |-> e + 1]
             ELSE [k |-> "fin", s |-> s, m |-> m, e |-> e]
    [] op = "RInt" ->
         LET v == x[1]
         IN
             IF v = 0 THEN Zero
             ELSE LET a == IF v < 0 THEN -v ELSE v
                      up == 53 - SmallBits(a)
                  IN  [k |-> "fin", s |-> IF v < 0 THEN -1 ELSE 1,
                       m |-> NatShiftLeft(NatFromInt(a), up), e |-> -up]
    [] op = "Dec" ->
         LET groups == x[1]  scale == x[2]
         IN  RoundQuot(1, NatFromGroups(groups, Len(groups)), NatPow10(scale), 0)
    [] op = "Exp10" ->
         LET e == x[1]
         IN  Pow10Table[e]
    [] op = "FinAdd" ->
         LET a == x[1]  b == x[2]
         IN
             IF a.s = 0 /\ b.s = 0 THEN (IF a = NegZero /\ b = NegZero THEN NegZero ELSE Zero)
             ELSE IF a.s = 0 THEN b
             ELSE IF b.s = 0 THEN a
             ELSE IF a.e - b.e > 55 THEN a
             ELSE IF b.e - a.e > 55 THEN b
             ELSE LET e == MinI(a.e, b.e)
                      an == NatShiftLeft(a.m, a.e - e)
                      bn == NatShiftLeft(b.m, b.e - e)
                  IN  IF a.s = b.s THEN Round(a.s, NatAdd(an, bn), e, FALSE)
                      ELSE Eval("FinSub", <<a.s, an, bn, e>>)
    [] op = "HighWord" ->
         LET a == x[1]
         IN
             IF a.s = 0 THEN 0
             ELSE IF NatBits(a.m) < 53 THEN NatToInt(NatShiftRight(a.m, 32))
             ELSE (a.e + 1074) * SmallPow2(20) + NatToInt(NatShiftRight(a.m, 32))
    [] op = "FromHighWord" ->
         LET h == x[1]
         IN
             [k |-> "fin", s |-> 1,
              m |-> NatShiftLeft(NatFromInt(SmallPow2(20) + (h % SmallPow2(20))), 32),
              e |-> (h \div SmallPow2(20)) - 1075]
    [] op = "TruncLow" ->
         LET a == x[1]
         IN
             IF ~IsFin(a) \/ a.s = 0 THEN a
             ELSE LET m == NatTrim(Limbs([i \in 1..Len(a.m) |->
                                            IF i <= 3 THEN 0
                                            ELSE IF i = 4 THEN a.m[i] - (a.m[i] % 4)
                                            ELSE a.m[i]], Len(a.m)))
                  IN  IF Len(m) = 0 THEN SignedZero(a.s) ELSE [a EXCEPT !.m = m]
    [] op = "PowConst" ->
         LET name == x[1]
         IN  PowConstTable[name]
    [] op = "UnicodeData" ->
         LET name == x[1]
         IN  UnicodeDataTable[name]
    [] op = "toLowerCase" ->
         LET str == x[1]
         IN  LowerCaseFrom(str, 1)
    [] op = "trim" ->
         LET str == x[1]
         IN
             LET keep == {i \in 1..Len(str) : str[i] \notin WhiteSpace}
             IN  IF keep = {} THEN << >>
                 ELSE SubSeq(str, CHOOSE i \in keep : \A j \in keep : i <= j,
                                  CHOOSE i \in keep : \A j \in keep : i >= j)
    [] op = "DigitRun" ->
         LET str == x[1]  p == x[2]
         IN  IF p <= Len(str) /\ IsDigit(str[p]) THEN 1 + DigitRun(str, p + 1) ELSE 0
    [] op = "NatFromDigits" ->
         LET ds == x[1]  lo == x[2]  hi == x[3]
         IN
             IF lo > hi THEN << >>
             ELSE IF lo = hi THEN NatFromInt(DigitValue(ds[lo]))
             ELSE LET mid == (lo + hi) \div 2
                  IN  NatAdd(NatMul(NatFromDigits(ds, lo, mid), NatPow10(hi - mid)),
                             NatFromDigits(ds, mid + 1, hi))
    [] op = "NatDigitsFrom" ->
         LET a == x[1]  ds == x[2]
         IN
             IF Len(a) = 0 THEN ds
             ELSE LET t == NatDivSmall(a, 10, Len(a), 0, << >>)
                  IN  NatDigitsFrom(t[1], <<DecimalDigits[t[2] + 1]>> \o ds)
    [] op = "NatToDigits" ->
         LET a == x[1]
         IN  IF Len(a) = 0 THEN <<"0">> ELSE NatDigitsFrom(a, << >>)
    [] op = "ExponentValue" ->
         LET ds == x[1]  i == x[2]
         IN
             IF i = 0 THEN 0
             ELSE LET before == ExponentValue(ds, i - 1)
                  IN  IF before >= 100000000 THEN 1000000000
                      ELSE 10 * before + DigitValue(ds[i])
    [] op = "StrValue" ->
         LET sgn == x[1]  mantissa == x[2]  ni == x[3]  nf == x[4]  negExp == x[5]  e == x[6]
         IN
             IF Len(mantissa) = 0 THEN SignedZero(sgn)
             ELSE IF negExp /\ e - ni >= 400 THEN SignedZero(sgn)
             ELSE IF ~negExp /\ e - nf >= 400 THEN SignedInf(sgn)
             ELSE Eval("Literal", <<sgn, mantissa, (IF negExp THEN -e ELSE e) - nf>>)
    [] op = "StrExponent" ->
         LET sgn == x[1]  str == x[2]  ni == x[3]  nf == x[4]  q == x[5]
         IN
             LET hasE == q <= Len(str) /\ str[q] \in {"e", "E"}
                 expSign == hasE /\ q + 1 <= Len(str) /\ str[q + 1] \in {"+", "-"}
                 e0 == IF expSign THEN q + 2 ELSE q + 1
                 ne == IF hasE THEN DigitRun(str, e0) ELSE 0
             IN  StrValue(sgn, NatFromDigits(SubSeq(str, 1, ni) \o SubSeq(str, ni + 2, ni + 1 + nf),
                                             1, ni + nf),
                          ni, nf, expSign /\ str[q + 1] = "-",
                          ExponentValue(SubSeq(str, e0, e0 + ne - 1), ne))
    [] op = "StrMantissa" ->
         LET sgn == x[1]  str == x[2]  ni == x[3]
         IN
             LET hasDot == ni + 1 <= Len(str) /\ str[ni + 1] = "."
                 nf == IF hasDot THEN DigitRun(str, ni + 2) ELSE 0
             IN  IF ni + nf = 0 THEN NaN
                 ELSE StrExponent(sgn, str, ni, nf, ni + 1 + (IF hasDot THEN 1 + nf ELSE 0))
    [] op = "StrUnsigned" ->
         LET sgn == x[1]  str == x[2]
         IN
             IF SubSeq(str, 1, MinI(Len(str), 8)) = <<"I", "n", "f", "i", "n", "i", "t", "y">>
             THEN SignedInf(sgn)
             ELSE StrMantissa(sgn, str, DigitRun(str, 1))
    [] op = "Rounded" ->
         LET num == x[1]  k == x[2]  toEven == x[3]
         IN
             IF num.s = 0 THEN << >>
             ELSE IF num.e >= 0 THEN NatShiftLeft(NatMul(num.m, NatPow10(k)), num.e)
             ELSE LET sum == NatAdd(NatShiftLeft(NatMul(num.m, NatPow10(k)), 1),
                                    NatShiftLeft(<<1>>, -num.e))
                      up == NatShiftRight(sum, 1 - num.e)
                      midway == NatShiftLeft(up, 1 - num.e) = sum
                  IN  IF toEven /\ midway /\ NatLimb(up, 1) % 2 = 1 THEN NatSub(up, <<1>>) ELSE up
    [] op = "DecimalPlaces" ->
         LET a == x[1]  k == x[2]
         IN
             IF k >= MaxPlaces \/ REq(RoundQuot(1, Rounded(a, k, TRUE), NatPow10(k), 0), a) THEN k
             ELSE DecimalPlaces(a, k + 1)
    [] op = "RCmp" ->
         LET a == x[1]  b == x[2]
         IN  IF IsInf(a) THEN (IF IsInf(b) /\ a.s = b.s THEN 0 ELSE a.s)
             ELSE IF IsInf(b) THEN -b.s
             ELSE FinCmp(a, b)
    [] op = "RAdd" ->
         LET a == x[1]  b == x[2]
         IN  IF IsNaN(a) \/ IsNaN(b) THEN NaN
             ELSE IF IsInf(a) THEN (IF IsInf(b) /\ a.s # b.s THEN NaN ELSE a)
             ELSE IF IsInf(b) THEN b
             ELSE FinAdd(a, b)
    [] op = "RMul" ->
         LET a == x[1]  b == x[2]
         IN  IF IsNaN(a) \/ IsNaN(b) THEN NaN
             ELSE IF IsInf(a) \/ IsInf(b)
                  THEN (IF a.s = 0 \/ b.s = 0 THEN NaN
                        ELSE IF a.s = b.s THEN PosInf ELSE NegInf)
             ELSE IF a.s = 0 \/ b.s = 0 THEN SignedZero(Sign(a) * Sign(b))
             ELSE Round(a.s * b.s, NatMul(a.m, b.m), a.e + b.e, FALSE)
    [] op = "RDiv" ->
         LET a == x[1]  b == x[2]
             sg == Sign(a) * Sign(b)
         IN  IF IsNaN(a) \/ IsNaN(b) THEN NaN
             ELSE IF IsInf(a)
                  THEN (IF IsInf(b) THEN NaN ELSE IF sg > 0 THEN PosInf ELSE NegInf)
             ELSE IF IsInf(b) THEN SignedZero(sg)
             ELSE IF b.s = 0
                  THEN (IF a.s = 0 THEN NaN ELSE IF sg > 0 THEN PosInf ELSE NegInf)
             ELSE IF a.s = 0 THEN SignedZero(sg)
             ELSE RoundQuot(a.s * b.s, a.m, b.m, a.e - b.e)
    [] op = "RMax" ->
         LET a == x[1]  b == x[2]
         IN  IF IsNaN(a) \/ IsNaN(b) THEN NaN
             ELSE IF RCmp(a, b) > 0 THEN a
             ELSE IF RCmp(a, b) < 0 THEN b
             ELSE IF a = NegZero THEN b ELSE a
    [] op = "RSqrt" ->
         \* the root of m * 2^k, taken down to the integer, for a k that leaves an
         \* even exponent and 55 bits or more
         LET a == x[1]
             k == 110 - NatBits(a.m) + ((a.e - 110 + NatBits(a.m)) % 2)
         IN  IF IsNaN(a) THEN NaN
             ELSE IF a.s < 0 THEN NaN
             ELSE IF IsInf(a) THEN PosInf
             ELSE IF a.s = 0 THEN a
             ELSE Eval("SqrtRound", <<NatShiftLeft(a.m, k), (a.e - k) \div 2>>)
    [] op = "SqrtRound" -> Eval("SqrtSticky", <<x[1], NatSqrt(x[1]), x[2]>>)
    [] op = "SqrtSticky" -> Round(1, x[2], x[3], NatMul(x[2], x[2]) # x[1])
    [] op = "Round" ->
         LET s == x[1]  n == x[2]  e == x[3]  sticky == x[4]
             sh == MaxI(NatBits(n) - 53, -1074 - e)
         IN  IF Len(n) = 0 THEN SignedZero(s)
             ELSE IF sh <= 0
             THEN Pack(s, NatShiftLeft(n, MinI(53 - NatBits(n), e + 1074)),
                       e - MinI(53 - NatBits(n), e + 1074))
             ELSE Eval("RoundUp", <<s, NatShiftRight(n, sh), e + sh,
                                    /\ NatBit(n, sh - 1) = 1
                                    /\ (sticky \/ ~NatLowClear(n, sh - 1)
                                          \/ NatBit(n, sh) = 1)>>)
    [] op = "RoundUp" -> Pack(x[1], IF x[4] THEN NatAdd(x[2], <<1>>) ELSE x[2], x[3])
    [] op = "RoundQuot" ->
         LET s == x[1]  n == x[2]  d == x[3]  e == x[4]
             k == MaxI(0, 56 + NatBits(d) - NatBits(n))
         IN  IF Len(n) = 0 THEN SignedZero(s)
             ELSE Eval("RoundRem", <<s, NatDivRem(NatShiftLeft(n, k), d), e - k>>)
    [] op = "RoundRem" -> Round(x[1], x[2][1], x[3], Len(x[2][2]) # 0)
    [] op = "FinSub" ->
         \* s * (an - bn) * 2^e
         LET s == x[1]  an == x[2]  bn == x[3]  e == x[4]
         IN  IF NatCmp(an, bn) = 0 THEN Zero
             ELSE IF NatCmp(an, bn) > 0 THEN Round(s, NatSub(an, bn), e, FALSE)
             ELSE Round(-s, NatSub(bn, an), e, FALSE)
    [] op = "Literal" ->
         \* the decimal literal s * n * 10^e
         IF x[3] >= 0 THEN Round(x[1], NatMul(x[2], NatPow10(x[3])), 0, FALSE)
         ELSE RoundQuot(x[1], x[2], NatPow10(-x[3]), 0)
    [] op = "RPow" ->
         \* y = 0, NaN, y = 1, y = -1, y = 2, then x among 0, 1, Infinity and
         \* their negatives, then 2^(y * log2 |x|) with the sign of the result,
         \* a subnormal x scaled by 2^53 first
         LET a == x[1]  e == x[2]
             sg == IF ~IsNaN(a) /\ Sign(a) < 0 /\ e % 2 = 1 THEN -1 ELSE 1
         IN  IF e = 0 THEN RInt(1)
             ELSE IF IsNaN(a) THEN NaN
             ELSE IF e = 1 THEN a
             ELSE IF e = -1 THEN RDiv(RInt(1), a)
             ELSE IF e = 2 THEN RMul(a, a)
             ELSE IF IsInf(a) \/ a.s = 0 \/ RAbs(a) = RInt(1)
             THEN Eval("PowSign", <<sg, IF e < 0 THEN RDiv(RInt(1), RAbs(a)) ELSE RAbs(a)>>)
             ELSE IF NatBits(a.m) < 53
             THEN Eval("PowLog", <<sg, e, RMul(RAbs(a), PowConst("two53")), -53>>)
             ELSE Eval("PowLog", <<sg, e, RAbs(a), 0>>)
    [] op = "PowSign" -> IF x[1] < 0 THEN RNeg(x[2]) ELSE x[2]
    [] op = "PowLog" ->
         \* n and ax with |x| = 2^n * ax, and k with ax near bp[k]: 1 or 1.5
         LET ax == x[3]
             j == NatToInt(NatShiftRight(ax.m, 32)) - SmallPow2(20)
             k == IF j > 235662 /\ j < 767610 THEN 1 ELSE 0
             up == IF j >= 767610 THEN 1 ELSE 0
         IN  Eval("PowLog2",
                  <<x[1], x[2], x[4] + ax.e + 52 + up, k, [ax EXCEPT !.e = -52 - up],
                    PowConst("bp")[k + 1],
                    FromHighWord((j + 1072693248 - up * 1048576) \div 2
                                   + 536870912 + 524288 + k * 262144)>>)
    [] op = "PowLog2" ->
         \* u = ax - bp[k], v = 1 / (ax + bp[k])
         LET ax == x[5]  bp == x[6]
         IN  Eval("PowLog3", <<x[1], x[2], x[3], x[4], ax, bp, x[7], RSub(ax, bp),
                               RDiv(PowConst("one"), RAdd(ax, bp))>>)
    [] op = "PowLog3" ->
         \* ss = u * v, t_l = ax - (t_h - bp[k])
         LET ax == x[5]  bp == x[6]  t_h == x[7]  u == x[8]  v == x[9]
         IN  Eval("PowLog4", <<x[1], x[2], x[3], x[4], t_h, u, v, RMul(u, v),
                               RSub(ax, RSub(t_h, bp))>>)
    [] op = "PowLog4" ->
         \* s_h = ss without its lower word, s2 = ss * ss
         LET ss == x[8]
         IN  Eval("PowLog5", <<x[1], x[2], x[3], x[4], ss, TruncLow(ss), x[7], x[6], x[5],
                               x[9], RMul(ss, ss)>>)
    [] op = "PowLog5" ->
         \* s_l = v * ((u - s_h * t_h) - s_h * t_l), r = s2 * s2 * (L1 + ...)
         LET ss == x[5]  s_h == x[6]  v == x[7]  u == x[8]  t_h == x[9]  t_l == x[10]
             s2 == x[11]
         IN  Eval("PowLog6",
                  <<x[1], x[2], x[3], x[4], ss, s_h,
                    RMul(v, RSub(RSub(u, RMul(s_h, t_h)), RMul(s_h, t_l))),
                    RMul(RMul(s2, s2),
                         RAdd(PowConst("L1"), RMul(s2, RAdd(PowConst("L2"), RMul(s2, RAdd(PowConst("L3"),
                           RMul(s2, RAdd(PowConst("L4"), RMul(s2, RAdd(PowConst("L5"),
                             RMul(s2, PowConst("L6"))))))))))))>>)
    [] op = "PowLog6" ->
         \* r += s_l * (s_h + ss), s2 = s_h * s_h
         LET ss == x[5]  s_h == x[6]  s_l == x[7]  r == x[8]
         IN  Eval("PowLog7", <<x[1], x[2], x[3], x[4], ss, s_h, s_l,
                               RAdd(r, RMul(s_l, RAdd(s_h, ss))), RMul(s_h, s_h)>>)
    [] op = "PowLog7" ->
         \* t_h = 3 + s2 + r without its lower word
         Eval("PowLog8", <<x[1], x[2], x[3], x[4], x[5], x[6], x[7], x[8], x[9],
                           TruncLow(RAdd(RAdd(PowConst("three"), x[9]), x[8]))>>)
    [] op = "PowLog8" ->
         \* t_l = r - ((t_h - 3) - s2), u = s_h * t_h
         LET ss == x[5]  s_h == x[6]  s_l == x[7]  r == x[8]  s2 == x[9]  t_h == x[10]
         IN  Eval("PowLog9", <<x[1], x[2], x[3], x[4], ss, s_l, t_h,
                               RSub(r, RSub(RSub(t_h, PowConst("three")), s2)),
                               RMul(s_h, t_h)>>)
    [] op = "PowLog9" ->
         \* v = s_l * t_h + t_l * ss
         LET ss == x[5]  s_l == x[6]  t_h == x[7]  t_l == x[8]  u == x[9]
         IN  Eval("PowLog10", <<x[1], x[2], x[3], x[4], u,
                                RAdd(RMul(s_l, t_h), RMul(t_l, ss))>>)
    [] op = "PowLog10" ->
         \* p_h = u + v without its lower word
         Eval("PowLog11", <<x[1], x[2], x[3], x[4], x[5], x[6], TruncLow(RAdd(x[5], x[6]))>>)
    [] op = "PowLog11" ->
         \* p_l = v - (p_h - u), z_h = cp_h * p_h
         LET u == x[5]  v == x[6]  p_h == x[7]
         IN  Eval("PowLog12", <<x[1], x[2], x[3], x[4], p_h, RSub(v, RSub(p_h, u)),
                                RMul(PowConst("cp_h"), p_h)>>)
    [] op = "PowLog12" ->
         \* z_l = cp_l * p_h + p_l * cp + dp_l[k], t = n
         LET k == x[4]  p_h == x[5]  p_l == x[6]
         IN  Eval("PowLog13", <<x[1], x[2], RInt(x[3]), PowConst("dp_h")[k + 1], x[7],
                                RAdd(RAdd(RMul(PowConst("cp_l"), p_h), RMul(p_l, PowConst("cp"))),
                                     PowConst("dp_l")[k + 1])>>)
    [] op = "PowLog13" ->
         \* t1 = ((z_h + z_l) + dp_h[k]) + t without its lower word
         LET t == x[3]  dp_h == x[4]  z_h == x[5]  z_l == x[6]
         IN  Eval("PowLog14", <<x[1], x[2], t, dp_h, z_h, z_l,
                                TruncLow(RAdd(RAdd(RAdd(z_h, z_l), dp_h), t))>>)
    [] op = "PowLog14" ->
         \* t2 = z_l - (((t1 - t) - dp_h[k]) - z_h): log2 |x| = t1 + t2
         LET t == x[3]  dp_h == x[4]  z_h == x[5]  z_l == x[6]  t1 == x[7]
         IN  Eval("PowExp", <<x[1], RInt(x[2]), t1,
                              RSub(z_l, RSub(RSub(RSub(t1, t), dp_h), z_h))>>)
    [] op = "PowExp" ->
         \* y1 = y without its lower word, which is y; p_l = (y - y1) * t1 + y * t2,
         \* p_h = y1 * t1
         LET y == x[2]  t1 == x[3]  t2 == x[4]
         IN  Eval("PowExp2", <<x[1], RAdd(RMul(RSub(y, TruncLow(y)), t1), RMul(y, t2)),
                               RMul(TruncLow(y), t1)>>)
    [] op = "PowExp2" -> Eval("PowExp3", <<x[1], x[2], x[3], RAdd(x[2], x[3])>>)
    [] op = "PowExp3" ->
         Eval("PowExp4", <<x[1], x[2], x[3], x[4], HighWord(RAbs(x[4]))>>)
    [] op = "PowExp4" ->
         \* z = p_l + p_h and j, the higher word of |z|: Infinity from z = 1024
         \* on, zero from z = -1075 down
         LET p_l == x[2]  p_h == x[3]  z == x[4]  j == x[5]
         IN  IF /\ Sign(z) > 0
                /\ j >= 1083179008
                /\ (\/ j > 1083179008
                    \/ ~LowWordClear(z)
                    \/ RGt(RAdd(p_l, PowConst("ovt")), RSub(z, p_h)))
             THEN SignedInf(x[1])
             ELSE IF /\ Sign(z) < 0
                     /\ j >= 1083231232
                     /\ (j > 1083231232 \/ ~LowWordClear(z) \/ RLe(p_l, RSub(z, p_h)))
             THEN SignedZero(x[1])
             ELSE IF j > 1071644672
             THEN Eval("PowExp5", <<x[1], Sign(z), p_l, p_h,
                                    j + SmallPow2(19 - (j \div 1048576 - 1023))>>)
             ELSE Eval("PowExp7", <<x[1], 0, p_l, p_h>>)
    [] op = "PowExp5" ->
         \* z beyond 1/2 in magnitude: n, the integer nearest to it, leaves p_h
         Eval("PowExp6", <<x[1], x[2], x[3], x[4], x[5],
                           SmallPow2(20 - (x[5] \div 1048576 - 1023))>>)
    [] op = "PowExp6" ->
         LET zs == x[2]  p_h == x[4]  n == x[5]  cut == x[6]
             t == FromHighWord(n - (n % cut))
         IN  Eval("PowExp7", <<x[1], zs * (((n % 1048576) + 1048576) \div cut), x[3],
                               RSub(p_h, IF zs < 0 THEN RNeg(t) ELSE t)>>)
    [] op = "PowExp7" ->
         \* t = p_l + p_h without its lower word
         Eval("PowExp8", <<x[1], x[2], x[3], x[4], TruncLow(RAdd(x[3], x[4]))>>)
    [] op = "PowExp8" ->
         \* u = t * lg2_h, v = (p_l - (t - p_h)) * lg2 + t * lg2_l
         LET p_l == x[3]  p_h == x[4]  t == x[5]
         IN  Eval("PowExp9", <<x[1], x[2], RMul(t, PowConst("lg2_h")),
                               RAdd(RMul(RSub(p_l, RSub(t, p_h)), PowConst("lg2")),
                                    RMul(t, PowConst("lg2_l")))>>)
    [] op = "PowExp9" -> Eval("PowExp10", <<x[1], x[2], x[3], x[4], RAdd(x[3], x[4])>>)
    [] op = "PowExp10" ->
         \* w = v - (z - u), t = z * z
         LET u == x[3]  v == x[4]  z == x[5]
         IN  Eval("PowExp11", <<x[1], x[2], z, RSub(v, RSub(z, u)), RMul(z, z)>>)
    [] op = "PowExp11" ->
         \* t1 = z - t * (P1 + t * (P2 + t * (P3 + t * (P4 + t * P5))))
         LET z == x[3]  t == x[5]
         IN  Eval("PowExp12",
                  <<x[1], x[2], z, x[4],
                    RSub(z, RMul(t, RAdd(PowConst("P1"), RMul(t, RAdd(PowConst("P2"), RMul(t, RAdd(PowConst("P3"),
                           RMul(t, RAdd(PowConst("P4"), RMul(t, PowConst("P5")))))))))))>>)
    [] op = "PowExp12" ->
         \* r = (z * t1) / ((t1 - 2) - (w + z * w)), as the engine groups it
         LET z == x[3]  w == x[4]  t1 == x[5]
         IN  Eval("PowExp13", <<x[1], x[2], z,
                                RDiv(RMul(z, t1),
                                     RSub(RSub(t1, PowConst("two")), RAdd(w, RMul(z, w))))>>)
    [] op = "PowExp13" ->
         \* z = 1 - (r - z)
         Eval("PowExp14", <<x[1], x[2], RSub(PowConst("one"), RSub(x[4], x[3]))>>)
    [] op = "PowExp14" ->
         \* s * z * 2^n
         Round(x[1] * x[3].s, x[3].m, x[3].e + x[2], FALSE)
    [] op = "Input" -> InputTable[x[1]]
    [] op = "gddFs2" -> gddFs2(x[1], x[2], x[3])
    [] op = "todFs3" -> todFs3(x[1], x[2], x[3], x[4])
    [] op = "predictedExitPulseWidthFs" -> predictedExitPulseWidthFs(x[1], x[2], x[3])
    [] op = "LoopBody" -> LoopBody(x[1], x[2], x[3], x[4])
    [] op = "DispersionResult" -> DispersionResult(x[1], x[2], x[3])
    [] op = "nFromSellmeier" -> nFromSellmeier(x[1], x[2])
    [] op = "d2n_dlambda2" -> d2n_dlambda2(x[1], x[2])
    [] op = "d3n_dlambda3" -> d3n_dlambda3(x[1], x[2])
    [] op = "getSellmeier" -> getSellmeier(x[1])
    [] op = "Raises" -> Raises(x[1])
    [] op = "parseMaterialIndex" -> parseMaterialIndex(x[1])
    [] op = "parseFloat" -> parseFloat(x[1])
    [] op = "NumberToString" -> NumberToString(x[1])
    [] op = "toFixed4" -> toFixed4(x[1])
    [] op = "refractiveIndexAtWavelength" -> refractiveIndexAtWavelength(x[1], x[2], x[3])

Input(name) == Eval("Input", <<name>>)

None == [fn |-> "none", args |-> << >>]

\* result before computeDispersion has returned
NoResult == [gddFs2 |-> NaN, todFs3 |-> NaN, predictedExitPulseWidthFs |-> NaN]

\* the second invocation before it is entered
IdleFrame ==
  [pc |-> "idle", surfaces |-> << >>, lambdaNm |-> Zero, pulseWidthFs |-> Zero,
   idx |-> 0, gddTotal |-> Zero, todTotal |-> Zero, result |-> NoResult]

\* null, undefined and strings as values of the viewport
JsNull == [type |-> "null"]
JsUndefined == [type |-> "undefined"]
Str(text) == [type |-> "string", value |-> text]

\* no Response yet
NoResponse == [ok |-> FALSE, status |-> 0]

Init ==
  /\ pc = "idle"
  /\ inSurfaces = << >>
  /\ inLambdaNm = Zero
  /\ inPulseWidthFs = Zero
  /\ idx = 0
  /\ gddTotal = Zero
  /\ todTotal = Zero
  /\ result = NoResult
  /\ call = None
  /\ ret = NaN
  /\ second = IdleFrame
  /\ calls = 0
  /\ isTracing = FALSE
  /\ hasTraced = FALSE
  /\ traceResult = JsNull
  /\ traceError = JsNull
  /\ activeTab = "lens"
  /\ requests = << >>
  /\ traces = 0

\* Enter with the totals living outside the function: they are not initialised
Enter_KeepTotals(surfs, lam, tau) ==
  /\ pc = "idle"
  /\ pc' = "loop"
  /\ inSurfaces' = surfs
  /\ inLambdaNm' = lam
  /\ inPulseWidthFs' = tau
  /\ idx' = 1
  /\ result' = NoResult
  /\ call' = None
  /\ ret' = NaN
  /\ calls' = calls + 1
  /\ UNCHANGED <<gddTotal, todTotal, second>>
  /\ UNCHANGED viewportVars

\* computeDispersion is entered: the locals are initialised
Enter(surfs, lam, tau) ==
  /\ pc = "idle"
  /\ pc' = "loop"
  /\ inSurfaces' = surfs
  /\ inLambdaNm' = lam
  /\ inPulseWidthFs' = tau
  /\ idx' = 1
  /\ gddTotal' = Zero
  /\ todTotal' = Zero
  /\ result' = NoResult
  /\ call' = None
  /\ ret' = NaN
  /\ calls' = calls + 1
  /\ UNCHANGED second
  /\ UNCHANGED viewportVars

\* one iteration of for (const s of surfaces)
ForStep ==
  /\ pc = "loop"
  /\ idx <= Len(inSurfaces)
  /\ ~Eval("Raises", <<inSurfaces[idx]>>)
  /\ \E t \in {Eval("LoopBody", <<inSurfaces[idx], inLambdaNm, gddTotal, todTotal>>)} :
       /\ gddTotal' = t[1]
       /\ todTotal' = t[2]
  /\ idx' = idx + 1
  /\ UNCHANGED <<pc, inSurfaces, inLambdaNm, inPulseWidthFs, result, call, ret, second,
                 calls>>
  /\ UNCHANGED viewportVars

\* one iteration of the loop raises: the exception leaves computeDispersion,
\* which has nothing to catch it, and no record is returned
ForStepThrow ==
  /\ pc = "loop"
  /\ idx <= Len(inSurfaces)
  /\ Eval("Raises", <<inSurfaces[idx]>>)
  /\ pc' = "thrown"
  /\ UNCHANGED <<inSurfaces, inLambdaNm, inPulseWidthFs, idx, gddTotal, todTotal, result, call,
                 ret, second, calls>>
  /\ UNCHANGED viewportVars

\* the loop is over: the predictor is applied and the record returned
Return ==
  /\ pc = "loop"
  /\ idx > Len(inSurfaces)
  /\ result' = Eval("DispersionResult", <<inPulseWidthFs, gddTotal, todTotal>>)
  /\ pc' = "done"
  /\ UNCHANGED <<inSurfaces, inLambdaNm, inPulseWidthFs, idx, gddTotal, todTotal, call, ret,
                 second, calls>>
  /\ UNCHANGED viewportVars

\* an exported function is called directly and returns (the module is
\* synchronous: nothing runs inside the loop of computeDispersion)
Call(fn, args) ==
  /\ pc = "idle"
  /\ call' = [fn |-> fn, args |-> args]
  /\ ret' = Eval(fn, args)
  /\ pc' = "done"
  /\ inSurfaces' = << >>
  /\ inLambdaNm' = Zero
  /\ inPulseWidthFs' = Zero
  /\ idx' = 0
  /\ gddTotal' = Zero
  /\ todTotal' = Zero
  /\ result' = NoResult
  /\ calls' = calls + 1
  /\ UNCHANGED second
  /\ UNCHANGED viewportVars

Next ==
  \/ \E a \in Input("Invocations") : Enter(a[1], a[2], a[3])
  \/ ForStep
  \/ Return
  \/ \E c \in Input("DirectCalls") : Call(c[1], c[2])

Spec == Init /\ [][Next]_vars

(***************************************************************************)
(* Invocations one after the other: the caller has the value of a call and *)
(* makes the next one.  What a call left in the variables stays there, as  *)
(* it would in anything that outlives the call.                            *)
(***************************************************************************)
NextCall ==
  /\ pc = "done"
  /\ calls < MaxCalls
  /\ pc' = "idle"
  /\ UNCHANGED <<inSurfaces, inLambdaNm, inPulseWidthFs, idx, gddTotal, todTotal, result,
                 call, ret, second, calls>>
  /\ UNCHANGED viewportVars

NextRepeated ==
  \/ \E a \in Input("RepeatInvocations") : Enter(a[1], a[2], a[3])
  \/ ForStep
  \/ Return
  \/ \E c \in Input("RepeatCalls") : Call(c[1], c[2])
  \/ NextCall

SpecRepeated == Init /\ [][NextRepeated]_vars

(***************************************************************************)
(* Two invocations of computeDispersion whose steps interleave: the second *)
(* has its own arguments and its own locals, as every call of a function   *)
(* has.                                                                    *)
(***************************************************************************)
EnterSecond(surfs, lam, tau) ==
  /\ second.pc = "idle"
  /\ second' = [pc |-> "loop", surfaces |-> surfs, lambdaNm |-> lam, pulseWidthFs |-> tau,
                idx |-> 1, gddTotal |-> Zero, todTotal |-> Zero, result |-> NoResult]
  /\ calls' = calls + 1
  /\ UNCHANGED <<pc, inSurfaces, inLambdaNm, inPulseWidthFs, idx, gddTotal, todTotal, result,
                 call, ret>>
  /\ UNCHANGED viewportVars

\* ForStepSecond with the totals shared by the two invocations
ForStepSecond_SharedTotals ==
  /\ second.pc = "loop"
  /\ second.idx <= Len(second.surfaces)
  /\ ~Eval("Raises", <<second.surfaces[second.idx]>>)
  /\ \E t \in {Eval("LoopBody", <<second.surfaces[second.idx], second.lambdaNm,
                                   gddTotal, todTotal>>)} :
       /\ gddTotal' = t[1]
       /\ todTotal' = t[2]
       /\ second' = [second EXCEPT !.gddTotal = t[1], !.todTotal = t[2], !.idx = @ + 1]
  /\ UNCHANGED <<pc, inSurfaces, inLambdaNm, inPulseWidthFs, idx, result, call, ret, calls>>
  /\ UNCHANGED viewportVars

\* one iteration of the loop of the second invocation
ForStepSecond ==
  /\ second.pc = "loop"
  /\ second.idx <= Len(second.surfaces)
  /\ ~Eval("Raises", <<second.surfaces[second.idx]>>)
  /\ \E t \in {Eval("LoopBody", <<second.surfaces[second.idx], second.lambdaNm,
                                   second.gddTotal, second.todTotal>>)} :
       second' = [second EXCEPT !.gddTotal = t[1], !.todTotal = t[2], !.idx = @ + 1]
  /\ UNCHANGED <<pc, inSurfaces, inLambdaNm, inPulseWidthFs, idx, gddTotal, todTotal, result,
                 call, ret, calls>>
  /\ UNCHANGED viewportVars

\* one iteration of the loop of the second invocation raises: the exception
\* leaves that invocation, and the other goes on
ForStepSecondThrow ==
  /\ second.pc = "loop"
  /\ second.idx <= Len(second.surfaces)
  /\ Eval("Raises", <<second.surfaces[second.idx]>>)
  /\ second' = [second EXCEPT !.pc = "thrown"]
  /\ UNCHANGED <<pc, inSurfaces, inLambdaNm, inPulseWidthFs, idx, gddTotal, todTotal, result,
                 call, ret, calls>>
  /\ UNCHANGED viewportVars

\* the loop of the second invocation is over
ReturnSecond ==
  /\ second.pc = "loop"
  /\ second.idx > Len(second.surfaces)
  /\ second' = [second EXCEPT
                  !.result = Eval("DispersionResult",
                                  <<second.pulseWidthFs, second.gddTotal, second.todTotal>>),
                  !.pc = "done"]
  /\ UNCHANGED <<pc, inSurfaces, inLambdaNm, inPulseWidthFs, idx, gddTotal, todTotal, result,
                 call, ret, calls>>
  /\ UNCHANGED viewportVars

NextInterleaved ==
  \/ \E a \in Input("InterleavedInvocations") : Enter(a[1], a[2], a[3])
  \/ ForStep
  \/ ForStepThrow
  \/ Return
  \/ \E a \in Input("InterleavedInvocations") : EnterSecond(a[1], a[2], a[3])
  \/ ForStepSecond
  \/ ForStepSecondThrow
  \/ ReturnSecond

SpecInterleaved == Init /\ [][NextInterleaved]_vars

(***************************************************************************)
(* computeDispersion on stacks that have elements without a material.      *)
(***************************************************************************)
NextAbsent ==
  \/ \E a \in Input("AbsentInvocations") : Enter(a[1], a[2], a[3])
  \/ ForStep
  \/ ForStepThrow
  \/ Return

SpecAbsent == Init /\ [][NextAbsent]_vars

(***************************************************************************)
(* The trace request of the viewport: handleTrace of OpticalViewport and   *)
(* the traceOpticalStack it awaits.  A state update takes effect where it  *)
(* is called.  The Trace button is disabled while isTracing holds.  App    *)
(* renders the viewport on the tab 'lens' only, and keeps systemState.     *)
(***************************************************************************)
\* a ?? b
Coalesce(a, b) == IF a \in {JsNull, JsUndefined} THEN b ELSE a

\* bodies that res.json() resolves with: a full result, an empty object, an
\* error, an error beside rays, an empty error string, and null
Bodies ==
  { [type |-> "object", rays |-> Str("rays"), surfaces |-> Str("surfaces"),
     focusZ |-> Str("42.5"), zOrigin |-> Str("0"), performance |-> Str("performance"),
     error |-> JsUndefined],
    [type |-> "object", rays |-> JsUndefined, surfaces |-> JsUndefined,
     focusZ |-> JsUndefined, zOrigin |-> JsUndefined, performance |-> JsUndefined,
     error |-> JsUndefined],
    [type |-> "object", rays |-> JsUndefined, surfaces |-> JsUndefined,
     focusZ |-> JsUndefined, zOrigin |-> JsUndefined, performance |-> JsUndefined,
     error |-> Str("No surfaces")],
    [type |-> "object", rays |-> Str("rays"), surfaces |-> Str("surfaces"),
     focusZ |-> JsUndefined, zOrigin |-> JsUndefined, performance |-> JsUndefined,
     error |-> Str("Ray missed surface 2")],
    [type |-> "object", rays |-> Str("rays"), surfaces |-> JsUndefined,
     focusZ |-> JsNull, zOrigin |-> JsUndefined, performance |-> JsUndefined,
     error |-> Str("")],
    JsNull }

\* what a rejected promise carries: Errors, and a value that is no Error
Thrown ==
  { [isError |-> TRUE, message |-> "Failed to fetch"],
    [isError |-> TRUE, message |-> ""],
    [isError |-> FALSE, message |-> "timeout"] }

\* `Trace failed: ${res.status}`
StatusMessage(status) ==
  CASE status = 500 -> "Trace failed: 500"
    [] status = 422 -> "Trace failed: 422"
    [] status = 404 -> "Trace failed: 404"

\* the tabs of the navigation bar
NavTabs == {"lens", "system", "properties", "export"}

\* the awaited call of request i has ended and handleTrace has run to its end:
\* the state update of its branch, then setIsTracing(false) of finally, which
\* reaches the viewport that began the request while that is still mounted
Settled(i, traced, error) ==
  /\ hasTraced' = TRUE
  /\ traceResult' = traced
  /\ traceError' = error
  /\ isTracing' = IF requests[i].live THEN FALSE ELSE isTracing
  /\ requests' = SubSeq(requests, 1, i - 1) \o SubSeq(requests, i + 1, Len(requests))
  /\ UNCHANGED <<activeTab, traces, dispersionVars>>

\* catch (err)
Caught(i, err) ==
  Settled(i, JsNull, Str(IF err.isError THEN err.message ELSE "Trace failed"))

\* the Trace button is clicked: setIsTracing(true), traceError: null, and
\* traceOpticalStack is called and calls fetch
HandleTrace ==
  /\ activeTab = "lens"
  /\ ~isTracing
  /\ traces < MaxTraces
  /\ isTracing' = TRUE
  /\ traceError' = JsNull
  /\ requests' = Append(requests, [pc |-> "fetch", response |-> NoResponse, live |-> TRUE])
  /\ traces' = traces + 1
  /\ UNCHANGED <<hasTraced, traceResult, activeTab, dispersionVars>>

\* fetch rejects: traceOpticalStack rejects with the same value
FetchRejects(i, err) ==
  /\ requests[i].pc = "fetch"
  /\ Caught(i, err)

\* fetch resolves with a Response: res.text() is awaited when it is not ok,
\* res.json() otherwise
FetchResolves(i, ok, status) ==
  /\ requests[i].pc = "fetch"
  /\ requests' = [requests EXCEPT ![i].pc = IF ok THEN "json" ELSE "text",
                                  ![i].response = [ok |-> ok, status |-> status]]
  /\ UNCHANGED <<isTracing, hasTraced, traceResult, traceError, activeTab, traces,
                 dispersionVars>>

\* res.text() resolves: throw new Error(text || `Trace failed: ${res.status}`)
TextResolves(i, text) ==
  /\ requests[i].pc = "text"
  /\ Caught(i, [isError |-> TRUE,
                message |-> IF text # "" THEN text
                            ELSE StatusMessage(requests[i].response.status)])

\* res.text() or res.json() rejects
BodyRejects(i, err) ==
  /\ requests[i].pc \in {"text", "json"}
  /\ Caught(i, err)

\* res.json() resolves with res: reading res.error of null throws a TypeError;
\* a truthy res.error is the error of the trace; otherwise res is the result
JsonResolves(i, res) ==
  /\ requests[i].pc = "json"
  /\ IF res = JsNull
     THEN Caught(i, [isError |-> TRUE,
                     message |-> "Cannot read properties of null (reading 'error')"])
     ELSE IF res.error \notin {JsNull, JsUndefined, Str("")}
     THEN Settled(i, JsNull, Coalesce(res.error, JsNull))
     ELSE Settled(i, [type |-> "object",
                      rays |-> Coalesce(res.rays, Str("[]")),
                      surfaces |-> Coalesce(res.surfaces, Str("[]")),
                      focusZ |-> Coalesce(res.focusZ, Str("0")),
                      zOrigin |-> res.zOrigin,
                      performance |-> res.performance],
                  JsNull)

\* NavBar: another tab is chosen.  Leaving 'lens' unmounts the viewport: its
\* state isTracing is gone, and the calls of handleTrace it began go on without
\* it.  Entering 'lens' mounts a viewport whose isTracing is false
SetActiveTab(tab) ==
  /\ tab # activeTab
  /\ activeTab' = tab
  /\ isTracing' = FALSE
  /\ requests' = [i \in 1..Len(requests) |-> [requests[i] EXCEPT !.live = FALSE]]
  /\ UNCHANGED <<hasTraced, traceResult, traceError, traces, dispersionVars>>

\* SystemEditor, on the tab 'system': a surface is edited.  updateSurface by
\* id discards the trace shown, updateSurface by index keeps it
UpdateSurface(byId) ==
  /\ activeTab = "system"
  /\ traceResult' = IF byId THEN JsNull ELSE traceResult
  /\ traceError' = IF byId THEN JsNull ELSE traceError
  /\ UNCHANGED <<isTracing, hasTraced, activeTab, requests, traces, dispersionVars>>

\* InfoPanel: the low-dispersion preset replaces the system, untraced
LoadPreset ==
  /\ hasTraced' = FALSE
  /\ traceResult' = JsNull
  /\ traceError' = JsNull
  /\ UNCHANGED <<isTracing, activeTab, requests, traces, dispersionVars>>

NextTrace ==
  \/ HandleTrace
  \/ \E i \in 1..Len(requests), err \in Thrown : FetchRejects(i, err)
  \/ \E i \in 1..Len(requests), ok \in BOOLEAN, status \in {200, 404, 422, 500} :
       (ok <=> status = 200) /\ FetchResolves(i, ok, status)
  \/ \E i \in 1..Len(requests), text \in {"", "Internal Server Error"} :
       TextResolves(i, text)
  \/ \E i \in 1..Len(requests), err \in Thrown : BodyRejects(i, err)
  \/ \E i \in 1..Len(requests), res \in Bodies : JsonResolves(i, res)
  \/ \E tab \in NavTabs : SetActiveTab(tab)
  \/ \E byId \in BOOLEAN : UpdateSurface(byId)
  \/ LoadPreset

\* the request ends: every promise that is awaited settles
SpecTrace ==
  /\ Init
  /\ [][NextTrace]_vars
  /\ WF_vars(\E i \in 1..Len(requests), err \in Thrown : FetchRejects(i, err))
  /\ WF_vars(\E i \in 1..Len(requests), ok \in BOOLEAN, status \in {200, 404, 422, 500} :
               (ok <=> status = 200) /\ FetchResolves(i, ok, status))
  /\ WF_vars(\E i \in 1..Len(requests), text \in {"", "Internal Server Error"} :
               TextResolves(i, text))
  /\ WF_vars(\E i \in 1..Len(requests), err \in Thrown : BodyRejects(i, err))
  /\ WF_vars(\E i \in 1..Len(requests), res \in Bodies : JsonResolves(i, res))

(***************************************************************************)
(* Properties of the stack aggregator.                                     *)
(***************************************************************************)
\* computeDispersion has returned its record
Returned == pc = "done" /\ call = None

\* the inclusion policy: the three conditions of a participating element
Participates(s) ==
  /\ s.type # "Air"
  /\ RGt(s.refractiveIndex, AIR_LIKE_INDEX)
  /\ getSellmeier(s.material) # Null

\* what a participating element adds: <<gddFs2(...), todFs3(...)>>
Contribution(s, lambdaNm) ==
  LET coeffs == getSellmeier(s.material)
      d2n == d2n_dlambda2(lambdaNm, coeffs)
      d3n == d3n_dlambda3(lambdaNm, coeffs)
  IN  <<gddFs2(lambdaNm, d2n, s.thickness), todFs3(lambdaNm, d2n, d3n, s.thickness)>>

RECURSIVE ParticipantSum(_, _, _)
\* the sums of the contributions of the participating elements among the first i
ParticipantSum(surfs, lambdaNm, i) ==
  IF i = 0 THEN <<RInt(0), RInt(0)>>
  ELSE LET before == ParticipantSum(surfs, lambdaNm, i - 1)
       IN  IF Participates(surfs[i])
           THEN LET c == Contribution(surfs[i], lambdaNm)
                IN  <<RAdd(before[1], c[1]), RAdd(before[2], c[2])>>
           ELSE before

\* two records hold the same three numbers (NaN taken as the same as NaN)
SameResult(r1, r2) ==
  /\ RSame(r1.gddFs2, r2.gddFs2)
  /\ RSame(r1.todFs3, r2.todFs3)
  /\ RSame(r1.predictedExitPulseWidthFs, r2.predictedExitPulseWidthFs)

\* 2^-46: sixty-four units in the last place of a double
Rounding == RDiv(RInt(1), RMul(RInt(8388608), RInt(8388608)))

\* a and b differ by no more than the rounding of numbers of the size of scale:
\* the two are the results of one formula of real numbers, the operations of
\* which were rounded in two orders; what is not finite is the same value
WithinRounding(a, b, scale) ==
  IF IsFin(a) /\ IsFin(b)
  THEN RLe(RAbs(RSub(a, b)), RMul(Rounding, RAbs(scale)))
  ELSE RSame(a, b)

\* a and b differ by no more than the rounding of numbers of their own size
SameUpToRounding(a, b) == WithinRounding(a, b, RMax(RAbs(a), RAbs(b)))

RECURSIVE ParticipantSize(_, _, _)
\* the sums of the magnitudes of the contributions among the first i elements
ParticipantSize(surfs, lambdaNm, i) ==
  IF i = 0 THEN <<RInt(0), RInt(0)>>
  ELSE LET before == ParticipantSize(surfs, lambdaNm, i - 1)
       IN  IF Participates(surfs[i])
           THEN LET c == Contribution(surfs[i], lambdaNm)
                IN  <<RAdd(before[1], RAbs(c[1])), RAdd(before[2], RAbs(c[2]))>>
           ELSE before

\* the stack without its element at position i
RemoveAt(surfs, i) == SubSeq(surfs, 1, i - 1) \o SubSeq(surfs, i + 1, Len(surfs))

\* the other orders of the elements of a stack
Reorderings(surfs) ==
  LET n == Len(surfs)
      perms == {p \in [1..n -> 1..n] : \A i, j \in 1..n : p[i] = p[j] => i = j}
  IN  {[i \in 1..n |-> surfs[p[i]]] : p \in perms} \ {surfs}

\* C1: when computeDispersion returns, gddFs2 and todFs3 are the sums of
\* gddFs2(...) and todFs3(...) over exactly the elements whose type is not 'Air',
\* whose refractiveIndex exceeds 1.01 and whose material the registry resolves;
\* every other element adds nothing.
C1_TotalsAreSumOverParticipants ==
  Returned =>
    LET t == ParticipantSum(inSurfaces, inLambdaNm, Len(inSurfaces))
    IN  /\ RSame(result.gddFs2, t[1])
        /\ RSame(result.todFs3, t[2])

\* a returned stack of one participating element followed by one that does not
C1_Witness ==
  /\ Returned
  /\ Len(inSurfaces) = 2
  /\ Participates(inSurfaces[1])
  /\ ~Participates(inSurfaces[2])
  /\ RGt(result.gddFs2, RInt(0))

\* C2: an element of type 'Air' or of refractiveIndex <= 1.01 contributes
\* nothing, whatever its material and thickness: the returned record is that of
\* the stack with the element removed.
C2_NonDispersiveElementIsRemovable ==
  Returned =>
    \A i \in 1..Len(inSurfaces) :
      (inSurfaces[i].type = "Air" \/ RLe(inSurfaces[i].refractiveIndex, AIR_LIKE_INDEX))
        => SameResult(result,
                      computeDispersion(RemoveAt(inSurfaces, i), inLambdaNm, inPulseWidthFs))

\* a returned stack of a glass and an element typed 'Air' whose material ('bk7')
\* and index are those of a glass
C2_Witness ==
  /\ Returned
  /\ Len(inSurfaces) = 2
  /\ Participates(inSurfaces[1])
  /\ inSurfaces[2].type = "Air"
  /\ getSellmeier(inSurfaces[2].material) # Null
  /\ RGt(inSurfaces[2].refractiveIndex, AIR_LIKE_INDEX)
  /\ ~REq(result.todFs3, RInt(0))

\* C3: an element of dispersive type and index > 1.01 whose material is not in
\* the registry is skipped: computeDispersion returns, and its record is that of
\* the stack with the element omitted.
C3_UnknownMaterialIsSkipped ==
  Returned =>
    \A i \in 1..Len(inSurfaces) :
      (/\ inSurfaces[i].type # "Air"
       /\ RGt(inSurfaces[i].refractiveIndex, AIR_LIKE_INDEX)
       /\ getSellmeier(inSurfaces[i].material) = Null)
        => SameResult(result,
                      computeDispersion(RemoveAt(inSurfaces, i), inLambdaNm, inPulseWidthFs))

\* a returned stack of the unregistered glass followed by a registered one, with
\* a pulse that the glass has broadened
C3_Witness ==
  /\ Returned
  /\ Len(inSurfaces) = 2
  /\ inSurfaces[1].type = "Glass"
  /\ RGt(inSurfaces[1].refractiveIndex, AIR_LIKE_INDEX)
  /\ getSellmeier(inSurfaces[1].material) = Null
  /\ Participates(inSurfaces[2])
  /\ RGt(result.predictedExitPulseWidthFs, inPulseWidthFs)

\* C4: for a participating element e, computeDispersion of [e, e] returns
\* gddFs2 and todFs3 equal to twice those of [e].
C4_TwoEqualElementsDouble ==
  (/\ Returned
   /\ Len(inSurfaces) = 2
   /\ inSurfaces[1] = inSurfaces[2]
   /\ Participates(inSurfaces[1]))
    => LET one == computeDispersion(<<inSurfaces[1]>>, inLambdaNm, inPulseWidthFs)
       IN  /\ RSame(result.gddFs2, RMul(RInt(2), one.gddFs2))
           /\ RSame(result.todFs3, RMul(RInt(2), one.todFs3))

\* a returned stack of twice the same participating element
C4_Witness ==
  /\ Returned
  /\ Len(inSurfaces) = 2
  /\ inSurfaces[1] = inSurfaces[2]
  /\ Participates(inSurfaces[1])
  /\ RGt(result.gddFs2, RInt(0))
  /\ ~REq(result.todFs3, RInt(0))

\* C5: computeDispersion returns the same gddFs2, todFs3 and
\* predictedExitPulseWidthFs for every order of the elements of the stack, the
\* rounding of the sums apart: the totals of two orders differ by no more than
\* the rounding of the contributions, and the predicted widths by no more than
\* their own.
C5_OrderIndependent ==
  Returned =>
    \A other \in Reorderings(inSurfaces) :
      LET there == computeDispersion(other, inLambdaNm, inPulseWidthFs)
          size == ParticipantSize(inSurfaces, inLambdaNm, Len(inSurfaces))
      IN  /\ WithinRounding(result.gddFs2, there.gddFs2, size[1])
          /\ WithinRounding(result.todFs3, there.todFs3, size[2])
          /\ SameUpToRounding(result.predictedExitPulseWidthFs,
                              there.predictedExitPulseWidthFs)

\* a returned stack of two different participating elements
C5_Witness ==
  /\ Returned
  /\ Len(inSurfaces) = 2
  /\ inSurfaces[1] # inSurfaces[2]
  /\ Participates(inSurfaces[1])
  /\ Participates(inSurfaces[2])
  /\ Reorderings(inSurfaces) # {}

(***************************************************************************)
(* Properties of the dispersion calculator and of the predictor.           *)
(***************************************************************************)
\* the speed of light the formulas are stated with: 2.99792458e8 m/s
SpeedOfLight == Dec(<<299, 792, 458>>, 0)

\* C6: gddFs2(lambda, d2n, 2L) = 2 * gddFs2(lambda, d2n, L).
C6_GddLinearInLength ==
  call.fn = "gddFs2" =>
    RSame(gddFs2(call.args[1], call.args[2], RMul(RInt(2), call.args[3])),
          RMul(RInt(2), ret))

\* a call of gddFs2 on 2.5 mm with a negative second derivative
C6_Witness ==
  /\ call.fn = "gddFs2"
  /\ REq(call.args[3], Dec(<<2, 500>>, 3))
  /\ RLt(ret, RInt(0))

\* C7: gddFs2(lambdaNm, d2n_perNm2, L_mm) is
\* L_mm * lambdaNm^3 * d2n_perNm2 * 10^18 / (2 * pi^2 * c^2), c = 2.99792458e8:
\* L lambda^3 d2n / (2 pi^2 c^2) in SI units, in fs^2, the rounding of the
\* products and of the powers of ten apart.
C7_GddNetFormula ==
  call.fn = "gddFs2" =>
    LET lambdaNm == call.args[1]
        d2n == call.args[2]
        L_mm == call.args[3]
    IN  SameUpToRounding(ret,
              RDiv(RMul(RMul(RMul(L_mm, RPow(lambdaNm, 3)), d2n), Exp10(18)),
                   RMul(RMul(RInt(2), RPow(PI, 2)), RPow(SpeedOfLight, 2))))

\* a call of gddFs2 at 587.6 nm with a positive result
C7_Witness ==
  /\ call.fn = "gddFs2"
  /\ REq(call.args[1], Dec(<<587, 600>>, 3))
  /\ RGt(ret, RInt(0))

\* C8: todFs3(lambdaNm, d2n_perNm2, d3n_perNm3, L_mm) is
\* L_mm * lambdaNm^4 * (lambdaNm * d3n_perNm3 - 2 * d2n_perNm2) * 10^24
\* / (4 * pi^3 * c^3): L lambda^4 (lambda d3n - 2 d2n) / (4 pi^3 c^3) in SI
\* units, in fs^3, both terms of the difference on one unit basis; the two
\* differ by no more than the rounding of the terms of the difference.
C8_TodNetFormula ==
  call.fn = "todFs3" =>
    LET lambdaNm == call.args[1]
        d2n == call.args[2]
        d3n == call.args[3]
        L_mm == call.args[4]
        net(term) ==
          RDiv(RMul(RMul(RMul(L_mm, RPow(lambdaNm, 4)), term), Exp10(24)),
               RMul(RMul(RInt(4), RPow(PI, 3)), RPow(SpeedOfLight, 3)))
    IN  WithinRounding(ret,
                       net(RSub(RMul(lambdaNm, d3n), RMul(RInt(2), d2n))),
                       net(RAdd(RAbs(RMul(lambdaNm, d3n)), RAbs(RMul(RInt(2), d2n)))))

\* a call of todFs3 in which both derivatives count
C8_Witness ==
  /\ call.fn = "todFs3"
  /\ ~REq(call.args[2], RInt(0))
  /\ ~REq(call.args[3], RInt(0))
  /\ ~REq(ret, RInt(0))

\* C9: predictedExitPulseWidthFs(tau_in, 0, 0) returns tau_in, for every input
\* pulse duration tau_in.
C9_ZeroDispersionKeepsPulse ==
  (/\ call.fn = "predictedExitPulseWidthFs"
   /\ REq(call.args[2], RInt(0))
   /\ REq(call.args[3], RInt(0)))
    => REq(ret, call.args[1])

\* tau_in^2 + (4 ln 2)^2 GDD^2 / tau_in^2 + (4 ln 2)^3 TOD^2 / tau_in^4
Broadening(tau, gdd, tod) ==
  LET a == RMul(RInt(4), LN2)
  IN  RAdd(RAdd(RPow(tau, 2),
                RDiv(RMul(RPow(a, 2), RPow(gdd, 2)), RPow(tau, 2))),
           RDiv(RMul(RPow(a, 3), RPow(tod, 2)), RPow(tau, 4)))

\* C10: predictedExitPulseWidthFs(tau_in, GDD, TOD) returns the square root of
\* max(0, tau_in^2 + (4 ln 2)^2 GDD^2 / tau_in^2 + (4 ln 2)^3 TOD^2 / tau_in^4),
\* and computeDispersion returns it for the totals of the whole stack and the
\* caller's pulse duration.
C10_PredictorFormula ==
  /\ call.fn = "predictedExitPulseWidthFs" =>
       RSame(ret, RSqrt(RMax(RInt(0),
                             Broadening(call.args[1], call.args[2], call.args[3]))))
  /\ Returned =>
       /\ result.gddFs2 = gddTotal
       /\ result.todFs3 = todTotal
       /\ RSame(result.predictedExitPulseWidthFs,
                RSqrt(RMax(RInt(0), Broadening(inPulseWidthFs, gddTotal, todTotal))))

\* computeDispersion has returned for a 100 fs pulse through two glasses
C10_Witness ==
  /\ Returned
  /\ Len(inSurfaces) = 2
  /\ Participates(inSurfaces[1])
  /\ Participates(inSurfaces[2])
  /\ REq(inPulseWidthFs, RInt(100))
  /\ RGt(result.predictedExitPulseWidthFs, inPulseWidthFs)

\* C11: for every input, the pathological tau_in = 0 included,
\* predictedExitPulseWidthFs returns a real number >= 0, and so is the
\* predictedExitPulseWidthFs of the record computeDispersion returns: never
\* negative, never NaN, never infinite.
C11_PredictionIsRealNonNegative ==
  /\ call.fn = "predictedExitPulseWidthFs" => (IsFin(ret) /\ RLe(RInt(0), ret))
  /\ Returned => (/\ IsFin(result.predictedExitPulseWidthFs)
                  /\ RLe(RInt(0), result.predictedExitPulseWidthFs))

(***************************************************************************)
(* Properties of the refractive index evaluator.                           *)
(***************************************************************************)
\* lam^2 - C_i, i = 1..3, for lam the wavelength in micrometres
SellmeierDenominators(lambdaNm, coeffs) ==
  LET lam == RMul(lambdaNm, Exp10(-3))
  IN  [i \in 1..3 |-> RSub(RMul(lam, lam), coeffs.C[i])]

\* 1 + sum over i of B_i lam^2 / (lam^2 - C_i)
SellmeierSquare(lambdaNm, coeffs) ==
  LET lam == RMul(lambdaNm, Exp10(-3))
      lam2 == RMul(lam, lam)
      den == SellmeierDenominators(lambdaNm, coeffs)
  IN  RAdd(RAdd(RAdd(RInt(1), RDiv(RMul(coeffs.B[1], lam2), den[1])),
                RDiv(RMul(coeffs.B[2], lam2), den[2])),
           RDiv(RMul(coeffs.B[3], lam2), den[3]))

\* C12: where no Sellmeier denominator is zero, nFromSellmeier returns the
\* square root of n^2 = 1 + sum of B_i lam^2 / (lam^2 - C_i), lam = lambdaNm * 1e-3,
\* clamped to 1 from below before the root: a real number >= 1.
C12_IndexAtLeastOne ==
  (/\ call.fn = "nFromSellmeier"
   /\ \A i \in 1..3 :
        ~REq(SellmeierDenominators(call.args[1], call.args[2])[i], RInt(0)))
    => LET n2 == SellmeierSquare(call.args[1], call.args[2])
       IN  /\ IsFin(ret)
           /\ RLe(RInt(1), ret)
           /\ RSame(ret, RSqrt(IF RLt(n2, RInt(1)) THEN RInt(1) ELSE n2))

\* a call below the resonances, where n^2 falls below 1 and the clamp acts
C12_Witness ==
  /\ call.fn = "nFromSellmeier"
  /\ \A i \in 1..3 :
       ~REq(SellmeierDenominators(call.args[1], call.args[2])[i], RInt(0))
  /\ RLt(SellmeierSquare(call.args[1], call.args[2]), RInt(1))
  /\ REq(ret, RInt(1))

(***************************************************************************)
(* Properties of the registry.                                             *)
(***************************************************************************)
RECURSIVE DropLeadingSpace(_)
DropLeadingSpace(str) ==
  IF Len(str) > 0 /\ str[1] \in WhiteSpace THEN DropLeadingSpace(Tail(str))
  ELSE str

RECURSIVE DropTrailingSpace(_)
DropTrailingSpace(str) ==
  IF Len(str) > 0 /\ str[Len(str)] \in WhiteSpace
  THEN DropTrailingSpace(SubSeq(str, 1, Len(str) - 1))
  ELSE str

\* the material string without the surrounding white space, in lower case
Normalised(str) ==
  LET core == DropTrailingSpace(DropLeadingSpace(str))
  IN  SubSeq([i \in 1..Len(core) |-> LowerCase(core[i])], 1, Len(core))

\* the three spellings of N-BK7 in the alias table
Bk7Names == {<<"b", "k", "7">>, <<"n", "-", "b", "k", "7">>, <<"n", "b", "k", "7">>}

\* C13: for every alias of the table and every spelling of it in upper or lower
\* case, also between white space, getSellmeier returns the coefficient set of
\* the alias; 'bk7', 'n-bk7' and 'nbk7' in any case give the N-BK7 set.
C13_CaseInsensitiveAliases ==
  call.fn = "getSellmeier" =>
    LET name == Normalised(call.args[1])
    IN  /\ name \in DOMAIN MATERIAL_TO_SELLMEIER
             => (ret # Null /\ ret = SELLMEIER[MATERIAL_TO_SELLMEIER[name]])
        /\ name \in Bk7Names => ret = SELLMEIER["N-BK7"]

\* the call getSellmeier(' NBK7\t ') has returned the N-BK7 set
C13_Witness ==
  /\ call.fn = "getSellmeier"
  /\ call.args[1] = <<" ", "N", "B", "K", "7", "\t", " ">>
  /\ ret = SELLMEIER["N-BK7"]

\* the glass meant by a name written with or without the hyphen and with or
\* without the catalog prefix 'N-'
VariantNames ==
  {<<"b", "k", "7">>,
   <<"n", "-", "b", "k", "7">>,
   <<"n", "b", "k", "7">>,
   <<"s", "f", "5">>,
   <<"n", "-", "s", "f", "5">>,
   <<"n", "s", "f", "5">>,
   <<"s", "f", "1", "0">>,
   <<"n", "-", "s", "f", "1", "0">>,
   <<"n", "s", "f", "1", "0">>,
   <<"s", "f", "1", "1">>,
   <<"n", "-", "s", "f", "1", "1">>,
   <<"n", "s", "f", "1", "1">>,
   <<"b", "a", "f", "1", "0">>,
   <<"n", "-", "b", "a", "f", "1", "0">>,
   <<"n", "b", "a", "f", "1", "0">>,
   <<"l", "a", "k", "9">>,
   <<"n", "-", "l", "a", "k", "9">>,
   <<"n", "l", "a", "k", "9">>}
GlassOfVariant(name) ==
  CASE name \in {<<"b", "k", "7">>, <<"n", "-", "b", "k", "7">>, <<"n", "b", "k", "7">>} -> "N-BK7"
    [] name \in {<<"s", "f", "5">>, <<"n", "-", "s", "f", "5">>, <<"n", "s", "f", "5">>} -> "N-SF5"
    [] name \in {<<"s", "f", "1", "0">>, <<"n", "-", "s", "f", "1", "0">>, <<"n", "s", "f", "1", "0">>} -> "N-SF10"
    [] name \in {<<"s", "f", "1", "1">>, <<"n", "-", "s", "f", "1", "1">>, <<"n", "s", "f", "1", "1">>} -> "N-SF11"
    [] name \in {<<"b", "a", "f", "1", "0">>, <<"n", "-", "b", "a", "f", "1", "0">>, <<"n", "b", "a", "f", "1", "0">>} -> "N-BAF10"
    [] name \in {<<"l", "a", "k", "9">>, <<"n", "-", "l", "a", "k", "9">>, <<"n", "l", "a", "k", "9">>} -> "N-LAK9"

\* C14: for each glass of the registry, its name written with or without the
\* hyphen and with or without the prefix 'N-' ('sf5', 'n-sf5', 'nsf5', ...)
\* resolves to the coefficient set of that glass, not to 'not modeled'.
C14_FormattingVariantsResolve ==
  (call.fn = "getSellmeier" /\ Normalised(call.args[1]) \in VariantNames)
    => ret = SELLMEIER[GlassOfVariant(Normalised(call.args[1]))]

\* C15: getSellmeier returns a coefficient set only when the lower-cased, trimmed
\* material string is exactly an alias key, and null for every other string: a
\* prefix or superstring of an alias, an alias with inner characters added, the
\* empty string, a numeric string.
C15_ExactAliasOnly ==
  call.fn = "getSellmeier" =>
    (ret # Null <=> Normalised(call.args[1]) \in DOMAIN MATERIAL_TO_SELLMEIER)

\* getSellmeier('bk7x') has returned null
C15_Witness ==
  /\ call.fn = "getSellmeier"
  /\ call.args[1] = <<"b", "k", "7", "x">>
  /\ ret = Null

\* C16: refractiveIndexAtWavelength returns the caller's nDefault when the
\* material is not in the registry, and nFromSellmeier of the material's
\* coefficient set, whatever nDefault, when it is.
C16_FallbackIsCallersIndex ==
  call.fn = "refractiveIndexAtWavelength" =>
    LET name == Normalised(call.args[2])
    IN  IF name \in DOMAIN MATERIAL_TO_SELLMEIER
        THEN RSame(ret, nFromSellmeier(call.args[1], SELLMEIER[MATERIAL_TO_SELLMEIER[name]]))
        ELSE ret = call.args[3]

\* refractiveIndexAtWavelength(800, 'unobtainium', 1.5) has returned 1.5
C16_Witness ==
  /\ call.fn = "refractiveIndexAtWavelength"
  /\ Normalised(call.args[2]) \notin DOMAIN MATERIAL_TO_SELLMEIER
  /\ Len(call.args[2]) > 3
  /\ REq(call.args[1], RInt(800))
  /\ REq(ret, Dec(<<1, 500>>, 3))

(***************************************************************************)
(* Properties of the derivative estimator.                                 *)
(***************************************************************************)
\* the fixed step h = 0.5 nm
StencilStep == Dec(<<500>>, 3)

\* (n(lambda + h) - 2 n(lambda) + n(lambda - h)) / h^2
ThreePointStencil(lambdaNm, coeffs) ==
  RDiv(RAdd(RSub(nFromSellmeier(RAdd(lambdaNm, StencilStep), coeffs),
                 RMul(RInt(2), nFromSellmeier(lambdaNm, coeffs))),
            nFromSellmeier(RSub(lambdaNm, StencilStep), coeffs)),
       RPow(StencilStep, 2))

\* (d2n(lambda + h) - d2n(lambda - h)) / (2 h), d2n the three-point stencil
TwoPointStencil(lambdaNm, coeffs) ==
  RDiv(RSub(ThreePointStencil(RAdd(lambdaNm, StencilStep), coeffs),
            ThreePointStencil(RSub(lambdaNm, StencilStep), coeffs)),
       RMul(RInt(2), StencilStep))

\* C19: the second-derivative estimate is the symmetric three-point stencil on
\* nFromSellmeier with the step h = 0.5 nm:
\* d2n(lambda) = (n(lambda + h) - 2 n(lambda) + n(lambda - h)) / h^2.
C19_SecondDerivativeStencil ==
  call.fn = "d2n_dlambda2" => RSame(ret, ThreePointStencil(call.args[1], call.args[2]))

\* the estimate for N-BK7 at 800 nm, which is positive
C19_Witness ==
  /\ call.fn = "d2n_dlambda2"
  /\ call.args[2] = SELLMEIER["N-BK7"]
  /\ REq(call.args[1], RInt(800))
  /\ RGt(ret, RInt(0))

\* C20: the third-derivative estimate is the symmetric two-point stencil on the
\* second-derivative estimator: d3n(lambda) = (d2n(lambda + h) - d2n(lambda - h)) / (2 h),
\* h = 0.5 nm; computeDispersion evaluates both estimators at the probe wavelength
\* with the coefficient set of the element.
C20_ThirdDerivativeStencil ==
  /\ call.fn = "d3n_dlambda3" => RSame(ret, TwoPointStencil(call.args[1], call.args[2]))
  /\ (Returned /\ Len(inSurfaces) = 1 /\ Participates(inSurfaces[1])) =>
       LET coeffs == SELLMEIER[MATERIAL_TO_SELLMEIER[Normalised(inSurfaces[1].material)]]
           d2n == ThreePointStencil(inLambdaNm, coeffs)
           d3n == TwoPointStencil(inLambdaNm, coeffs)
       IN  /\ RSame(result.gddFs2, gddFs2(inLambdaNm, d2n, inSurfaces[1].thickness))
           /\ RSame(result.todFs3, todFs3(inLambdaNm, d2n, d3n, inSurfaces[1].thickness))

\* computeDispersion has returned for the single element of SF11 at 587.6 nm
C20_Witness ==
  /\ Returned
  /\ Len(inSurfaces) = 1
  /\ Participates(inSurfaces[1])
  /\ Normalised(inSurfaces[1].material) = <<"s", "f", "1", "1">>
  /\ REq(inLambdaNm, Dec(<<587, 600>>, 3))
  /\ ~REq(result.todFs3, RInt(0))

(***************************************************************************)
(* Properties of the engine as a whole.                                    *)
(***************************************************************************)
\* C17: the engine keeps no state across invocations: whatever calls were made
\* before, computeDispersion returns what it returns for its stack, wavelength and
\* pulse duration alone, and it leaves the caller's surface list as it was.  (The
\* registry and the alias table are constants of the module: no statement
\* assigns to them or to their properties.)
C17_NoStateAcrossInvocations ==
  /\ [](Returned =>
          SameResult(result, computeDispersion(inSurfaces, inLambdaNm, inPulseWidthFs)))
  /\ [][pc = "loop" => inSurfaces' = inSurfaces]_vars

\* computeDispersion has returned from a glass, after an earlier invocation
C17_Witness ==
  /\ Returned
  /\ calls = 2
  /\ Len(inSurfaces) = 1
  /\ Participates(inSurfaces[1])
  /\ RGt(result.gddFs2, RInt(0))

\* the invocation with the locals idx, gdd, tod at the place at, run alone on
\* surfs: it returns the record of computeDispersion(surfs, lambdaNm,
\* pulseWidthFs) when no element raises, and it is stopped by the first element
\* that does, the record not returned
AsWhenAlone(at, i, res, surfs, lambdaNm, pulseWidthFs) ==
  LET raising == {j \in 1..Len(surfs) : Raises(surfs[j])}
  IN  /\ at = "done" =>
            /\ raising = {}
            /\ SameResult(res, computeDispersion(surfs, lambdaNm, pulseWidthFs))
      /\ at = "thrown" =>
            /\ i \in raising
            /\ \A j \in raising : i <= j
            /\ res = NoResult
      /\ at = "loop" => \A j \in raising : i <= j

\* C18: under every interleaving of the steps of two invocations of
\* computeDispersion, each returns what it returns when it runs alone, and is
\* stopped by an element without a material where it is when it runs alone: the
\* running totals and the iterator are local to the invocation, and the
\* exception of one invocation does not reach the other.
C18_InterleavedInvocationsIndependent ==
  /\ call = None =>
       AsWhenAlone(pc, idx, result, inSurfaces, inLambdaNm, inPulseWidthFs)
  /\ AsWhenAlone(second.pc, second.idx, second.result, second.surfaces, second.lambdaNm,
                 second.pulseWidthFs)

\* one invocation has returned the totals of two glasses while the other, past
\* its first glass, has been stopped by an element without a material
C18_Witness ==
  /\ Returned
  /\ Len(inSurfaces) = 2
  /\ \A i \in 1..2 : Participates(inSurfaces[i])
  /\ RGt(result.gddFs2, RInt(0))
  /\ second.pc = "thrown"
  /\ second.idx = 2
  /\ RGt(second.gddTotal, RInt(0))

(***************************************************************************)
(* The registry against the nominal indices of the editor.                 *)
(***************************************************************************)
\* |a - b| <= tol
Within(a, b, tol) == RLe(RSub(a, b), tol) /\ RLe(RSub(b, a), tol)

\* C21: for every material name the registry resolves, nFromSellmeier at the
\* d-line (587.6 nm) with the coefficient set of that name is within 1e-4 of the
\* nominal index that MATERIAL_INDEX tabulates for the same name.
C21_DLineIndexMatchesNominal ==
  (call.fn = "nFromSellmeier" /\ REq(call.args[1], DLine)) =>
    \A name \in DOMAIN MATERIAL_INDEX :
      (getSellmeier(name) # Null /\ getSellmeier(name) = call.args[2]) =>
        Within(ret, MATERIAL_INDEX[name], Exp10(-4))

(***************************************************************************)
(* A probe wavelength on a resonance.                                      *)
(***************************************************************************)
\* lambda^2 = C_i for some i
OnPole(lambdaNm, coeffs) ==
  \E i \in 1..3 : REq(SellmeierDenominators(lambdaNm, coeffs)[i], RInt(0))

\* C22: on a Sellmeier pole the evaluator returns a value that is not finite,
\* and so do the derivative estimators, gddFs2 and todFs3 on their estimates and
\* the totals and the predicted width made of them: no finite index or
\* dispersion is returned.
C22_PoleYieldsNonFinite ==
  /\ (call.fn = "nFromSellmeier" /\ OnPole(call.args[1], call.args[2])) => ~IsFin(ret)
  /\ (call.fn = "d2n_dlambda2" /\ OnPole(call.args[1], call.args[2])) =>
       /\ ~IsFin(ret)
       /\ \A L \in Lengths :
            LET gdd == RAdd(RInt(0), gddFs2(call.args[1], ret, L))
            IN  /\ ~IsFin(gdd)
                /\ ~IsFin(predictedExitPulseWidthFs(RInt(100), gdd, RInt(0)))
  /\ (call.fn = "d3n_dlambda3" /\ OnPole(call.args[1], call.args[2])) =>
       /\ ~IsFin(ret)
       /\ \A L \in Lengths :
            ~IsFin(RAdd(RInt(0), todFs3(call.args[1],
                                        d2n_dlambda2(call.args[1], call.args[2]), ret, L)))

(***************************************************************************)
(* computeDispersion runs to its end.                                      *)
(***************************************************************************)
\* C23: computeDispersion has no failure mode: on every finite stack, elements
\* of glass type with an index above 1.01 and no material or an unknown one
\* included, it raises nothing; the iterator stands on an element of the stack
\* or one past its end, and the record is returned when it has passed every
\* element.
C23_RunsToReturn ==
  /\ pc \in {"idle", "loop", "done"}
  /\ pc = "loop" => idx \in 1..(Len(inSurfaces) + 1)
  /\ Returned => idx = Len(inSurfaces) + 1

(***************************************************************************)
(* The third-derivative estimate as one stencil on the index.              *)
(***************************************************************************)
\* the wavelength of the k-th sample of the stencil, k in -2 .. 2, as the source
\* forms it: lambda + h and lambda - h in d3n_dlambda3, and one more step from
\* them in d2n_dlambda2
StencilPoint(lambdaNm, k) ==
  LET h == StencilStep
  IN  IF k = 2 THEN RAdd(RAdd(lambdaNm, h), h)
      ELSE IF k = 1 THEN RAdd(lambdaNm, h)
      ELSE IF k = -1 THEN RSub(lambdaNm, h)
      ELSE IF k = -2 THEN RSub(RSub(lambdaNm, h), h)
      ELSE lambdaNm

\* the two inner stencils read n at lambda: the steps back from lambda + h and
\* from lambda - h are exact (as they are unless a step rounds)
CentreIsLambda(lambdaNm) ==
  /\ REq(RSub(StencilPoint(lambdaNm, 1), StencilStep), lambdaNm)
  /\ REq(RAdd(StencilPoint(lambdaNm, -1), StencilStep), lambdaNm)

\* (n(lambda + 2h) - 2 n(lambda + h) + 2 n(lambda - h) - n(lambda - 2h)) / (2 h^3)
FivePointStencil(lambdaNm, coeffs) ==
  LET h == StencilStep
      n(k) == nFromSellmeier(StencilPoint(lambdaNm, k), coeffs)
  IN  RDiv(RSub(RAdd(RSub(n(2), RMul(RInt(2), n(1))), RMul(RInt(2), n(-1))), n(-2)),
           RMul(RInt(2), RPow(h, 3)))

\* the size of the terms that d3n_dlambda3 adds: those of the stencil and the
\* n(lambda) of the two inner stencils, which it adds and rounds before they
\* cancel: (|n(lambda + 2h)| + 2 |n(lambda + h)| + 4 |n(lambda)| + 2 |n(lambda - h)|
\* + |n(lambda - 2h)|) / (2 h^3)
FivePointSize(lambdaNm, coeffs) ==
  LET h == StencilStep
      n(k) == RAbs(nFromSellmeier(StencilPoint(lambdaNm, k), coeffs))
  IN  RDiv(RAdd(RAdd(RAdd(RAdd(n(2), RMul(RInt(2), n(1))), RMul(RInt(4), n(0))),
                     RMul(RInt(2), n(-1))), n(-2)),
           RMul(RInt(2), RPow(h, 3)))

\* n is finite at the four wavelengths of the stencil
OuterFinite(lambdaNm, coeffs) ==
  \A k \in {-2, -1, 1, 2} : IsFin(nFromSellmeier(StencilPoint(lambdaNm, k), coeffs))

\* C24 as stated: for every wavelength and coefficient set, d3n_dlambda3 equals
\* (n(lambda + 2h) - 2 n(lambda + h) + 2 n(lambda - h) - n(lambda - 2h)) / (2 h^3),
\* h = 0.5 nm, the n(lambda) of the two inner stencils cancelling (equal within
\* the rounding of the terms that are added).
C24_FivePointEverywhere ==
  (call.fn = "d3n_dlambda3" /\ CentreIsLambda(call.args[1])) =>
    WithinRounding(ret, FivePointStencil(call.args[1], call.args[2]),
                   FivePointSize(call.args[1], call.args[2]))

\* C24: where n(lambda) is finite, d3n_dlambda3(lambda) equals the five-point
\* antisymmetric stencil on nFromSellmeier with h = 0.5 nm, within the rounding
\* of the terms that are added, the n(lambda) of the two inner stencils among
\* them (on both sides of a resonance n(lambda) is large, and its rounding is
\* what the two differ by); where n(lambda) is infinite (lambda on a pole)
\* the two inner stencils are infinite, their difference is NaN, and the
\* five-point stencil, which does not read n(lambda), is finite when n is
\* finite at its four wavelengths.
C24_FivePointWhereFinite ==
  (call.fn = "d3n_dlambda3" /\ CentreIsLambda(call.args[1])) =>
    IF IsFin(nFromSellmeier(call.args[1], call.args[2]))
    THEN WithinRounding(ret, FivePointStencil(call.args[1], call.args[2]),
                        FivePointSize(call.args[1], call.args[2]))
    ELSE /\ IsNaN(ret)
         /\ OuterFinite(call.args[1], call.args[2])
              => IsFin(FivePointStencil(call.args[1], call.args[2]))

\* the estimate 1e-8 nm above a resonance, where n(lambda) is above 10^5: it is
\* not the value of the five-point stencil, and differs from it by the
\* rounding of n(lambda)
C24_Witness ==
  /\ call.fn = "d3n_dlambda3"
  /\ CentreIsLambda(call.args[1])
  /\ RGt(call.args[1], PoleWavelength)
  /\ RGt(nFromSellmeier(call.args[1], call.args[2]), RInt(100000))
  /\ IsFin(ret)
  /\ ~REq(ret, FivePointStencil(call.args[1], call.args[2]))
  /\ WithinRounding(ret, FivePointStencil(call.args[1], call.args[2]),
                    FivePointSize(call.args[1], call.args[2]))

(***************************************************************************)
(* The predictor never shortens the pulse.                                 *)
(***************************************************************************)
\* the predictor gives the same for GDD and -GDD, and for TOD and -TOD
SignBlind(tau, gdd, tod, value) ==
  /\ RSame(predictedExitPulseWidthFs(tau, RNeg(gdd), tod), value)
  /\ RSame(predictedExitPulseWidthFs(tau, gdd, RNeg(tod)), value)

\* C25 as stated: for tau_in > 0 the predicted width is >= tau_in, equal to it
\* exactly when GDD = 0 and TOD = 0, and unchanged when GDD or TOD is negated.
C25_EqualOnlyWithoutDispersion ==
  (call.fn = "predictedExitPulseWidthFs" /\ RGt(call.args[1], RInt(0))) =>
    /\ RLe(call.args[1], ret)
    /\ REq(ret, call.args[1]) <=>
         (REq(call.args[2], RInt(0)) /\ REq(call.args[3], RInt(0)))
    /\ SignBlind(call.args[1], call.args[2], call.args[3], ret)

\* C25: for tau_in > 0 the predicted width is >= tau_in, equal to it when
\* GDD = 0 and TOD = 0 (so a width above tau_in tells of dispersion), and
\* unchanged when GDD or TOD is negated; equality holds as well for totals whose
\* terms vanish in the rounding of the sum and of the root.
C25_NeverShorter ==
  (call.fn = "predictedExitPulseWidthFs" /\ RGt(call.args[1], RInt(0))) =>
    /\ RLe(call.args[1], ret)
    /\ (REq(call.args[2], RInt(0)) /\ REq(call.args[3], RInt(0))) => REq(ret, call.args[1])
    /\ (call.args[2] \in TinySamples \/ call.args[3] \in TinySamples) =>
         REq(ret, call.args[1])
    /\ (call.args[2] \in GddSamples /\ call.args[3] \in TodSamples
        /\ ~(REq(call.args[2], RInt(0)) /\ REq(call.args[3], RInt(0)))) =>
         RGt(ret, call.args[1])
    /\ SignBlind(call.args[1], call.args[2], call.args[3], ret)

\* a 30.5 fs pulse with a negative GDD and no TOD comes out longer
C25_Witness ==
  /\ call.fn = "predictedExitPulseWidthFs"
  /\ REq(call.args[1], Dec(<<30, 500>>, 3))
  /\ RLt(call.args[2], RInt(0))
  /\ REq(call.args[3], RInt(0))
  /\ RGt(ret, call.args[1])

(***************************************************************************)
(* The length of the path: any number, with its sign.                      *)
(***************************************************************************)
\* the element with the sign of its thickness changed
Mirrored(s) == [s EXCEPT !.thickness = RNeg(@)]

\* C26: todFs3 is homogeneous in the length, todFs3(lam, d2n, d3n, k L) =
\* k todFs3(lam, d2n, d3n, L), to the last bit for k = 0, 2 and -1 and within
\* the rounding of the products for k = 2.5; an element of thickness 0 adds exactly zero to
\* both totals; the thickness is not checked: an element of negative thickness
\* adds the negated GDD and TOD of the element of the opposite thickness.
C26_TodHomogeneousInLength ==
  /\ call.fn = "todFs3" =>
       /\ \A k \in {RInt(0), RInt(2), RNeg(RInt(1))} :
            RSame(todFs3(call.args[1], call.args[2], call.args[3], RMul(k, call.args[4])),
                  RMul(k, ret))
       /\ \A k \in {Dec(<<2, 500>>, 3)} :
            SameUpToRounding(todFs3(call.args[1], call.args[2], call.args[3],
                                    RMul(k, call.args[4])),
                             RMul(k, ret))
  /\ Returned =>
       \A i \in 1..Len(inSurfaces) :
         LET s == inSurfaces[i]
             rest == computeDispersion(RemoveAt(inSurfaces, i), inLambdaNm, inPulseWidthFs)
         IN  /\ (Participates(s) /\ REq(s.thickness, RInt(0))) =>
                  /\ REq(Contribution(s, inLambdaNm)[1], RInt(0))
                  /\ REq(Contribution(s, inLambdaNm)[2], RInt(0))
                  /\ SameResult(result, rest)
             /\ (Participates(s) /\ RLt(s.thickness, RInt(0))) =>
                  LET size == ParticipantSize(inSurfaces, inLambdaNm, Len(inSurfaces))
                  IN  /\ REq(Contribution(s, inLambdaNm)[1],
                             RNeg(Contribution(Mirrored(s), inLambdaNm)[1]))
                      /\ REq(Contribution(s, inLambdaNm)[2],
                             RNeg(Contribution(Mirrored(s), inLambdaNm)[2]))
                      /\ WithinRounding(result.gddFs2,
                                        RSub(rest.gddFs2,
                                             Contribution(Mirrored(s), inLambdaNm)[1]),
                                        size[1])
                      /\ WithinRounding(result.todFs3,
                                        RSub(rest.todFs3,
                                             Contribution(Mirrored(s), inLambdaNm)[2]),
                                        size[2])

\* a plate of -6 mm before a plate of 6 mm of the same glass: the totals are zero
C26_Witness ==
  /\ Returned
  /\ Len(inSurfaces) = 2
  /\ Participates(inSurfaces[1])
  /\ Participates(inSurfaces[2])
  /\ RLt(inSurfaces[1].thickness, RInt(0))
  /\ ~REq(Contribution(inSurfaces[2], inLambdaNm)[2], RInt(0))
  /\ REq(result.gddFs2, RInt(0))
  /\ REq(result.todFs3, RInt(0))

(***************************************************************************)
(* The two tables of the registry.                                         *)
(***************************************************************************)
\* two keys of SELLMEIER that name one glass
SameGlass(k1, k2) ==
  \/ k1 = k2
  \/ {k1, k2} \in {{"N-BK7", "BK7"}, {"N-SF11", "SF11"}, {"Fused Silica", "Silica"}}

\* C27: every alias of MATERIAL_TO_SELLMEIER points to a key of SELLMEIER, so
\* that getSellmeier returns null only for strings that are no alias, and two
\* keys of SELLMEIER carry the same coefficients only when they name the same
\* glass: distinct glasses, F2 and N-SF5 among them, have distinct coefficients.
C27_RegistryWellFormed ==
  /\ \A a \in DOMAIN MATERIAL_TO_SELLMEIER : MATERIAL_TO_SELLMEIER[a] \in DOMAIN SELLMEIER
  /\ call.fn = "getSellmeier" =>
       (ret = Null <=> Normalised(call.args[1]) \notin DOMAIN MATERIAL_TO_SELLMEIER)
  /\ \A k1, k2 \in DOMAIN SELLMEIER : SELLMEIER[k1] = SELLMEIER[k2] => SameGlass(k1, k2)
  /\ SELLMEIER["F2"] # SELLMEIER["N-SF5"]

\* a material name to which MATERIAL_INDEX gives an index above 1.01
NominalGlass(material) ==
  /\ Normalised(material) \in DOMAIN MATERIAL_INDEX
  /\ RGt(MATERIAL_INDEX[Normalised(material)], AIR_LIKE_INDEX)

\* C28: every name that MATERIAL_INDEX maps to an index above 1.01 is resolved
\* by the registry, and an element of type 'Glass' that carries such a name and
\* its nominal index participates in computeDispersion.
C28_NominalGlassIsRegistered ==
  /\ (call.fn = "getSellmeier" /\ NominalGlass(call.args[1])) => ret # Null
  /\ Returned =>
       \A i \in 1..Len(inSurfaces) :
         (/\ inSurfaces[i].type = "Glass"
          /\ NominalGlass(inSurfaces[i].material)
          /\ REq(inSurfaces[i].refractiveIndex,
                 MATERIAL_INDEX[Normalised(inSurfaces[i].material)]))
           => Participates(inSurfaces[i])

(***************************************************************************)
(* The Material/Index column of the editor.                                *)
(***************************************************************************)
\* input that is empty, or no name of MATERIAL_INDEX and no number in [1, 3)
Unusable(input) ==
  LET trimmed == trim(IF input = Undefined THEN << >> ELSE input)
      num == parseFloat(trimmed)
  IN  \/ trimmed = << >>
      \/ /\ toLowerCase(trimmed) \notin DOMAIN MATERIAL_INDEX
         /\ (IsNaN(num) \/ RLt(num, RInt(1)) \/ RLe(RInt(3), num))

\* C29: for every input string parseMaterialIndex returns a number
\* refractiveIndex with 1 <= refractiveIndex < 3 and the type 'Glass' exactly
\* when refractiveIndex > 1.01 (the threshold of the aggregator), 'Air'
\* otherwise; for empty, unparseable or out-of-range input it returns
\* refractiveIndex 1, material 'Air', type 'Air'.
C29_ParsedIndexInRange ==
  call.fn = "parseMaterialIndex" =>
    /\ IsFin(ret.refractiveIndex)
    /\ RLe(RInt(1), ret.refractiveIndex)
    /\ RLt(ret.refractiveIndex, RInt(3))
    /\ ret.type = (IF RGt(ret.refractiveIndex, AIR_LIKE_INDEX)
                    THEN "Glass" ELSE "Air")
    /\ Unusable(call.args[1]) =>
         ret = [refractiveIndex |-> RInt(1), material |-> <<"A", "i", "r">>, type |-> "Air"]

(***************************************************************************)
(* The life of a trace request.                                            *)
(***************************************************************************)
\* C30: isTracing holds from the start of a trace until it has settled;
\* traceError is null when the request is sent; whichever way the request
\* ends, hasTraced holds and exactly one of traceResult and traceError is not
\* null; and isTracing is false again in the end.
C30_TraceLifecycle ==
  /\ [](isTracing <=> requests # << >>)
  /\ [][Len(requests') > Len(requests) => traceError' = JsNull]_vars
  /\ [][Len(requests') < Len(requests) =>
          (hasTraced' /\ (traceResult' = JsNull) # (traceError' = JsNull))]_vars
  /\ isTracing ~> ~isTracing
====
